---- MODULE Spec2Model ----
(***************************************************************************)
(* Element assembly, distributed accumulation and the drivers of the two   *)
(* applications of the repository:                                         *)
(*   DirNeu  = applications/2021_fall/shaflynn/shaflynn.cpp                *)
(*             (AssembleProblemDirNeu, neumann_loop_1d, neumann_loop_2d3d) *)
(*   Bouss   = applications/Conformal/ex7/CMakeLists.txt                   *)
(*             (main, AssembleBoussinesqAppoximation_AD,                   *)
(*              GetKineandPointVlaue)                                      *)
(* Spec     : the assembly passes, one process per mesh partition.         *)
(* SpecMain : main() of the Boussinesq application.                        *)
(***************************************************************************)
EXTENDS Integers, Sequences, FiniteSets, TLC

\* ------------------------------------------------------------------ bounds
NProc   == 2    \* number of processes (mesh partitions)
NElem   == 2    \* number of elements of the mesh level
MaxPass == 2    \* number of assembly passes the solver asks for
NGauss  == 1    \* quadrature points of the volume rule

Procs == 0 .. (NProc - 1)
Elems == 0 .. (NElem - 1)
Apps  == {"DirNeu", "Bouss"}

\* ------------------------------------------------------------- arithmetic
RECURSIVE SumSeq(_)
SumSeq(s) == IF s = << >> THEN 0 ELSE Head(s) + SumSeq(Tail(s))

RECURSIVE SumOver(_, _)
SumOver(S, f) ==
  IF S = {} THEN 0
  ELSE LET x == CHOOSE y \in S : TRUE IN f[x] + SumOver(S \ {x}, f)

\* f[0] + ... + f[n - 1]
RECURSIVE SumTo(_, _)
SumTo(n, f) == IF n <= 0 THEN 0 ELSE f[n - 1] + SumTo(n - 1, f)

\* << f[0], ..., f[n - 1] >>
RECURSIVE MkSeq(_, _)
MkSeq(n, f) == IF n <= 0 THEN << >> ELSE Append(MkSeq(n - 1, f), f[n - 1])

Range(s) == { s[i] : i \in DOMAIN s }

\* sequences of the code are 0-based: At(s, i) is s[i] of the C++ vector
At(s, i) == s[i + 1]
Upd(s, i, v) == [s EXCEPT ![i + 1] = v]
Zeros(n) == [i \in 1 .. n |-> 0]

\* main() when only the assembly passes are followed
MainIdle == [ pc |-> "none" ]
\* no boundary loop is followed
BdryIdle == [ pc |-> "none" ]
\* no multigrid cycle is followed
MgIdle == [ pc |-> "Idle" ]

\* --------------------------------------------------------- program state
VARIABLES
  app,            \* which application runs: "DirNeu" or "Bouss"
  dim,            \* msh->GetDimension()
  elementOffset,  \* msh->_elementOffset, indexed 0 .. NProc
  owner,          \* the process that stores each row <<field, node>>
  Sol,            \* sol->_Sol    : current solution, by <<field, node>>
  SolOld,         \* sol->_SolOld : old solution,     by <<field, node>>
  pass,           \* number of assembly passes started so far
  assembleMatrix, \* mlPdeSys->GetAssembleMatrix() of the pass in progress
  pc,             \* per process: position in the assembler
  iel,            \* per process: element loop variable
  aRes,           \* per process: aResT, aResV[k], aResP of the Boussinesq assembler
  Res,            \* per process: local residual vector Res
  Jac,            \* per process: local Jacobian Jac (row-major)
  sysDof,         \* per process: local to global map (sysDof / l2GMap_AllVars)
  RES,            \* pdeSys->_RES, the entries each owner stores
  stashRES,       \* per process: contributions to entries of other owners, pending close()
  KK,             \* pdeSys->_KK: per row, the number of local block rows added to it
  stashKK,        \* per process: block rows for rows of other owners, pending close()
  arrived,        \* collective close(): processes that have called it, per object
  released,       \* collective close(): processes free to return from it, per object
  stack,          \* per process: FemusInit::_adeptStack
  hist,           \* per process: calls made in the pass in progress (observation only)
  probeNode,      \* the node at (-1.875, -0.375), or NoNode when the mesh has none
  diag,           \* per process: locals of GetKineandPointVlaue
  out_vec,        \* GetKineandPointVlaue: the reduction vector, one entry per process
  out_stash,      \* per process: entries set for other owners, pending close()
  out_closed,     \* out_vec as its last completed close() left it
  prev,           \* the pass before the one in progress: its flag and its residual
  main,           \* main() of the Boussinesq application: position and locals
  bdry,           \* a call of neumann_loop_1d / neumann_loop_2d3d or of a boundary
                  \* predicate: arguments, position, locals and the calls it made
  mg              \* a multigrid cycle: its settings, the calls in progress and the
                  \* operations it has performed

vars == << app, dim, elementOffset, owner, Sol, SolOld, pass, assembleMatrix, pc, iel,
           aRes, Res, Jac, sysDof, RES, stashRES, KK, stashKK, arrived, released,
           stack, hist, probeNode, diag, out_vec, out_stash,
           out_closed, prev, main, bdry, mg >>

\* ------------------------------------------------ mesh / dof-map provider
\* Finite element families of the unknowns (MultiLevelSolution::AddSolution).
SolType(f) ==
  CASE f = "d_s" -> "FIRST"
    [] f = "T"   -> "SERENDIPITY"
    [] f = "P"   -> "DISC_FIRST"
    [] OTHER     -> "SECOND"        \* U, V, W

\* Velocity component k of the Boussinesq system: U, V, W.
VelName(k) == << "U", "V", "W" >>[k + 1]

\* Unknowns of the PDE system in the order of AddSolutionToSystemPDE.
SolPdeFields(a, d) ==
  IF a = "DirNeu" THEN << "d_s" >>
  ELSE IF d = 3 THEN << "U", "V", "P", "W", "T" >>
  ELSE << "U", "V", "P", "T" >>

\* msh->GetElementDofNumber(iel, type): a chain of cells, two vertices a cell,
\* one interior node for the quadratic family, two cell-local pressure modes.
GetElementDofNumber(e, type) ==
  CASE type = "SECOND" -> 3
    [] OTHER           -> 2

\* msh->GetSolutionDof(i, iel, type): vertices are shared by neighbouring cells.
GetSolutionDof(i, e, type) ==
  CASE type = "DISC_FIRST" -> 2 * e + i
    [] OTHER -> IF i < 2 THEN e + i ELSE NElem + 1 + e

\* Number of dofs of one unknown of the given family on the whole mesh.
NodeCount(type) ==
  CASE type = "DISC_FIRST" -> 2 * NElem
    [] type = "SECOND"     -> 2 * NElem + 1
    [] OTHER               -> NElem + 1

\* Rows of the system before the block of unknown f: the unknowns are laid out
\* one after the other in the order of SolPdeFields.
RECURSIVE OffsetIn(_, _, _)
OffsetIn(list, f, k) ==
  IF k >= Len(list) \/ At(list, k) = f THEN 0
  ELSE NodeCount(SolType(At(list, k))) + OffsetIn(list, f, k + 1)
KKoffset(a, d, f) == OffsetIn(SolPdeFields(a, d), f, 0)

\* pdeSys->GetSystemDof(solIndex, solPdeIndex, i, iel): the row of the system.
GetSystemDofOf(a, d, f, i, e) == KKoffset(a, d, f) + GetSolutionDof(i, e, SolType(f))
GetSystemDof(f, i, e) == GetSystemDofOf(app, dim, f, i, e)

\* All rows of the system.
DofSetOf(a, d) ==
  0 .. (OffsetIn(SolPdeFields(a, d), "none", 0) - 1)

DofSet == DofSetOf(app, dim)

\* Elements whose local dofs include row r of the system of application a.
ElemsOfDof(a, d, r) ==
  { e \in Elems :
      \E f \in Range(SolPdeFields(a, d)) :
        \E i \in 0 .. (GetElementDofNumber(e, SolType(f)) - 1) :
          GetSystemDofOf(a, d, f, i, e) = r }

\* The process that owns element e: off[p] <= e < off[p + 1].
ElemOwnerOf(off, e) ==
  CHOOSE p \in Procs : off[p] <= e /\ e < off[p + 1]
ElemOwner(e) == ElemOwnerOf(elementOffset, e)

\* The process that stores row d: the owner of the first element holding it.
OwnerTable(a, dm, off) ==
  [ d \in DofSetOf(a, dm) |->
      LET es == ElemsOfDof(a, dm, d)
      IN ElemOwnerOf(off, CHOOSE e \in es : \A x \in es : e <= x) ]
DofOwner(d) == owner[d]

\* Contiguous element ranges: 0 = off[0] <= off[1] <= ... <= off[NProc] = NElem.
Partitions ==
  { off \in [0 .. NProc -> 0 .. NElem] :
      /\ off[0] = 0
      /\ off[NProc] = NElem
      /\ \A p \in Procs : off[p] <= off[p + 1] }

FieldNo(f) ==
  CASE f = "T" -> 1 [] f = "U" -> 2 [] f = "V" -> 0 [] f = "W" -> 1 [] f = "P" -> 2
    [] OTHER -> 1

\* Solution states the passes run on: <<seed of current, seed of old>>.
SolStates == { << 1, 0 >>, << 2, 1 >> }
SolFromSeed(a, d, s) ==
  [ f \in Range(SolPdeFields(a, d)) |->
      [ n \in 0 .. (NodeCount(SolType(f)) - 1) |-> (s * (n + 1) + FieldNo(f)) % 3 ] ]


\* ------------------------------------------- shape / quadrature provider
\* Tables of one reference cell with n dofs, at quadrature point ig.
\* phi[i]
PhiTab(n, i, ig) == IF i = ig % n THEN 1 ELSE 0
\* phi_x[i * space_dim + k]
PhiXTab(n, i, k, ig) ==
  IF k = 0 THEN (IF i = 0 THEN -1 ELSE IF i = 1 THEN 1 ELSE 0)
  ELSE (IF i = 0 THEN -1 ELSE IF i = n - 1 THEN 1 ELSE 0)
\* detJac_qp * GetGaussWeightsPointer()[i_qp]
JacXWeight(ig) == ig + 1
\* weight returned by Jacobian(coordX, ig, weight, ...)
GaussWeight(ig) == 2 * (ig + 1)
GaussPoints == 0 .. (NGauss - 1)

\* ================================================= shaflynn.cpp (DirNeu)
space_dim == 3

\* SetBoundaryCondition of shaflynn.cpp: <<dirichlet, value>>.
SetBoundaryCondition_DirNeu(d, face_name) ==
  IF d = 2 /\ face_name \in {1, 2, 3}
    THEN [dirichlet |-> TRUE, value |-> 0]
    ELSE [dirichlet |-> FALSE, value |-> 0]

\* msh->GetElementFaceNumber(iel): the two ends of a cell of the chain.
GetElementFaceNumber(e) == 2
\* msh->el->GetFaceElementIndex(iel, jface): the neighbour across the face, or
\* -(group + 1) on the physical boundary (group 1 at the left end, 4 at the right).
GetFaceElementIndex(e, jface) ==
  IF jface = 0 THEN (IF e = 0 THEN -2 ELSE e - 1)
  ELSE (IF e = NElem - 1 THEN -5 ELSE e + 1)
\* msh->GetElementFaceDofNumber(iel, jface, type)
GetElementFaceDofNumber(e, jface, type) == 1
\* msh->GetLocalFaceVertexIndex(iel, jface, i)
GetLocalFaceVertexIndex(e, jface, i) == jface

\* One face of neumann_loop_1d applied to the local residual r.
neumann_face_1d(r, e, jface) ==
  LET boundary_index == GetFaceElementIndex(e, jface)
      face == -(boundary_index + 1)
      bc == SetBoundaryCondition_DirNeu(1, face)
      i_vol == GetLocalFaceVertexIndex(e, jface, 0)
  IN IF boundary_index < 0 /\ ~bc.dirichlet /\ bc.value # 0
       THEN Upd(r, i_vol, At(r, i_vol) + bc.value)
       ELSE r

\* One face of neumann_loop_2d3d: one face quadrature point of unit weight,
\* face shape value 1.
neumann_face_2d3d(r, d, e, jface) ==
  LET boundary_index == GetFaceElementIndex(e, jface)
      face == -(boundary_index + 1)
      bc == SetBoundaryCondition_DirNeu(d, face)
      i_vol == GetLocalFaceVertexIndex(e, jface, 0)
      weight_iqp_bdry == 1
      phi_u_bdry == 1
  IN IF boundary_index < 0 /\ ~bc.dirichlet
       THEN Upd(r, i_vol, At(r, i_vol) + weight_iqp_bdry * bc.value * phi_u_bdry)
       ELSE r

RECURSIVE neumann_loop(_, _, _, _)
\* neumann_loop_1d (dim = 1) or neumann_loop_2d3d (dim = 2, 3), faces jface ..
neumann_loop(r, d, e, jface) ==
  IF jface >= GetElementFaceNumber(e) THEN r
  ELSE neumann_loop(IF d = 1 THEN neumann_face_1d(r, e, jface)
                    ELSE neumann_face_2d3d(r, d, e, jface),
                    d, e, jface + 1)

\* sol_u[i] of element e, read from the solution S
sol_u_on(S, e, i) == S["d_s"][GetSolutionDof(i, e, SolType("d_s"))]
sol_u(e, i) == sol_u_on(Sol, e, i)
nDof_u(e) == GetElementDofNumber(e, SolType("d_s"))

\* sol_u_x_gss[k] at quadrature point ig
sol_u_x_gss_on(S, e, k, ig) ==
  SumOver(0 .. (nDof_u(e) - 1),
          [i \in 0 .. (nDof_u(e) - 1) |->
             sol_u_on(S, e, i) * PhiXTab(nDof_u(e), i, k, ig)])
sol_u_x_gss(e, k, ig) == sol_u_x_gss_on(Sol, e, k, ig)

laplace_res_du_u_i_on(S, e, i, ig) ==
  SumOver(0 .. (space_dim - 1),
          [k \in 0 .. (space_dim - 1) |->
             PhiXTab(nDof_u(e), i, k, ig) * sol_u_x_gss_on(S, e, k, ig)])
laplace_res_du_u_i(e, i, ig) == laplace_res_du_u_i_on(Sol, e, i, ig)

\* The k-loop of laplace_mat_du_u_i_j cut down to its first dimension.
laplace_mat_du_u_i_j_FirstDim(e, i, j, ig) ==
  PhiXTab(nDof_u(e), i, 0, ig) * PhiXTab(nDof_u(e), j, 0, ig)

laplace_mat_du_u_i_j(e, i, j, ig) ==
  SumOver(0 .. (space_dim - 1),
          [k \in 0 .. (space_dim - 1) |->
             PhiXTab(nDof_u(e), i, k, ig) * PhiXTab(nDof_u(e), j, k, ig)])

\* The quadrature loop of AssembleProblemDirNeu on the local residual r, the
\* nodal values being those of the solution S.
VolumeRes_DirNeu_on(S, r, e) ==
  [ s \in 1 .. Len(r) |->
      r[s] + SumOver(GaussPoints,
                     [ig \in GaussPoints |->
                        JacXWeight(ig) * (PhiTab(nDof_u(e), s - 1, ig) * 100
                                           - laplace_res_du_u_i_on(S, e, s - 1, ig))]) ]
VolumeRes_DirNeu(r, e) == VolumeRes_DirNeu_on(Sol, r, e)

\* ... and on the local Jacobian j (row-major, nDof_AllVars columns).
VolumeJac_DirNeu(j, e) ==
  [ s \in 1 .. Len(j) |->
      j[s] + SumOver(GaussPoints,
                     [ig \in GaussPoints |->
                        JacXWeight(ig) *
                          laplace_mat_du_u_i_j(e, (s - 1) \div nDof_u(e),
                                               (s - 1) % nDof_u(e), ig)]) ]

\* l2GMap_AllVars of element e
l2GMap_AllVars(e) == [ s \in 1 .. nDof_u(e) |-> GetSystemDof("d_s", s - 1, e) ]

\* ================================ distributed vector / matrix backend
\* Sum of the entries of vals scattered to row d by the index list idx.
Contribution(vals, idx, d) ==
  SumTo(Len(idx), [ r \in 0 .. (Len(idx) - 1) |->
                      IF At(idx, r) = d THEN At(vals, r) ELSE 0 ])

\* NumericVector::zero() on process p: the entries p stores.
VecZero(vec, p) ==
  [ d \in DOMAIN vec |-> IF DofOwner(d) = p THEN 0 ELSE vec[d] ]

RECURSIVE AddLoop(_, _, _, _, _, _)
\* for (r = from; r < idx.size(); r++) the value vals[r] goes to row idx[r]:
\* with own, the rows process p stores take it; without, the other rows do
AddLoop(vec, vals, idx, p, own, from) ==
  IF from >= Len(idx) THEN vec
  ELSE LET d == At(idx, from)
       IN AddLoop(IF (DofOwner(d) = p) = own
                    THEN [ vec EXCEPT ![d] = @ + At(vals, from) ]
                    ELSE vec,
                  vals, idx, p, own, from + 1)

\* NumericVector::add_vector_blocked(vals, idx) on process p: entries p stores
\* are added in place ...
VecAddOwned(vec, vals, idx, p) == AddLoop(vec, vals, idx, p, TRUE, 0)
\* ... entries of other owners are kept aside until close().
VecAddStash(st, vals, idx, p) == AddLoop(st, vals, idx, p, FALSE, 0)

\* NumericVector::close(): every owner receives what the others kept aside.
VecClose(vec, stashes) ==
  [ d \in DOMAIN vec |->
      vec[d] + SumTo(NProc, [ q \in Procs |-> stashes[q][d] ]) ]

\* SparseMatrix::zero() on process p: the rows p stores.
MatZero(mat, p) ==
  [ d \in DOMAIN mat |-> IF DofOwner(d) = p THEN 0 ELSE mat[d] ]

\* SparseMatrix::add_matrix_blocked(Jac, idx, idx) on process p: the matrix is
\* followed by the number of element blocks added to each of its rows.
RowHits(idx) == [ r \in 1 .. Len(idx) |-> 1 ]
MatAddOwned(mat, idx, p) == AddLoop(mat, RowHits(idx), idx, p, TRUE, 0)
MatAddStash(st, idx, p) == AddLoop(st, RowHits(idx), idx, p, FALSE, 0)

\* SparseMatrix::close()
MatClose(mat, stashes) ==
  [ d \in DOMAIN mat |->
      mat[d] + SumTo(NProc, [ q \in Procs |-> stashes[q][d] ]) ]

ZeroVec == [ d \in DofSet |-> 0 ]

\* A process that takes itself for process 0.
iproc_root(p) == 0

\* msh->processor_id() of process p
iproc(p) == p

\* A close() that would return without waiting for the other processes.
MayReturnAtOnce(p, obj) == TRUE

\* close() is collective: a process that has called it returns only once
\* every process has called it.
MayReturnFromClose(p, obj) == p \in released[obj]

\* Process p calls close() on obj ("RES", "KK"), having first returned from
\* the close() of ret if ret is not "none"; the last caller completes the
\* exchange.
CallClose(p, obj, ret) ==
  LET now == arrived[obj] \cup {p}
      last == now = Procs
      rel == IF ret = "none" THEN released
             ELSE [ released EXCEPT ![ret] = @ \ {p} ]
  IN /\ ret # "none" => MayReturnFromClose(p, ret)
     /\ arrived' = [ arrived EXCEPT ![obj] = IF last THEN {} ELSE now ]
     /\ released' = [ rel EXCEPT ![obj] = IF last THEN Procs ELSE @ ]
     /\ IF obj = "RES" /\ last
          THEN /\ RES' = VecClose(RES, stashRES)
               /\ stashRES' = [ q \in Procs |-> ZeroVec ]
          ELSE UNCHANGED << RES, stashRES >>
     /\ IF obj = "KK" /\ last
          THEN /\ KK' = MatClose(KK, stashKK)
               /\ stashKK' = [ q \in Procs |-> ZeroVec ]
          ELSE UNCHANGED << KK, stashKK >>

ReturnFromClose(p, obj) ==
  /\ MayReturnFromClose(p, obj)
  /\ released' = [ released EXCEPT ![obj] = @ \ {p} ]
  /\ UNCHANGED << arrived, RES, stashRES, KK, stashKK >>

\* ------------------------------------------------ calls made in a pass
HistInit ==
  [ zeroRES |-> 0, zeroKK |-> 0, closeRES |-> 0, closeKK |-> 0,
    retRES |-> 0, retKK |-> 0,
    resAdds |-> [ e \in Elems |-> 0 ], kkAdds |-> [ e \in Elems |-> 0 ],
    addAfterClose |-> FALSE,
    newRec |-> [ e \in Elems |-> 0 ], jacobian |-> [ e \in Elems |-> 0 ],
    adCalls |-> 0, overlap |-> FALSE, open |-> {} ]

Bump(h, fld) == [ h EXCEPT ![fld] = @ + 1 ]
BumpAt(h, fld, e) == [ h EXCEPT ![fld][e] = @ + 1 ]

mesh == << app, dim, elementOffset, owner, Sol, SolOld >>
backend == << RES, stashRES, KK, stashKK, arrived, released >>
locals == << aRes, Res, Jac, sysDof >>
diagv == << probeNode, diag, out_vec, out_stash, out_closed >>

\* ============================================ AssembleProblemDirNeu
\* RES->zero(); if (assembleMatrix) JAC->zero();
D_Start(p) ==
  /\ app = "DirNeu" /\ pc[p] = "start"
  /\ RES' = VecZero(RES, p)
  /\ KK' = IF assembleMatrix THEN MatZero(KK, p) ELSE KK
  /\ iel' = [ iel EXCEPT ![p] = elementOffset[iproc(p)] ]
  /\ hist' = [ hist EXCEPT ![p] =
                 IF assembleMatrix THEN Bump(Bump(@, "zeroRES"), "zeroKK")
                 ELSE Bump(@, "zeroRES") ]
  /\ pc' = [ pc EXCEPT ![p] = "elem" ]
  /\ UNCHANGED << mesh, diagv, prev, main, bdry, mg, pass, assembleMatrix, locals, stashRES, stashKK,
                  arrived, released, stack >>

\* the loop condition iel < msh->_elementOffset[iproc + 1]
D_InRange(p) == iel[p] < elementOffset[iproc(p) + 1]

\* v.resize(n): the first entries are kept, new ones take the value pad
Resize(v, n, pad) == [ s \in 1 .. n |-> IF s <= Len(v) THEN v[s] ELSE pad ]

\* the resize alone, the entries of the previous element kept
ResetBuffer_ResizeOnly(old, n) == Resize(old, n, 0)

\* v.resize(n); std::fill(v.begin(), v.end(), 0);
ResetBuffer(old, n) ==
  LET v == Resize(old, n, 0)
  IN [ s \in 1 .. Len(v) |-> 0 ]

\* for (iel ...) { ... Res.resize; fill 0; Jac.resize; fill 0; l2GMap_AllVars ...
\* if (dim == 1) neumann_loop_1d(...); if (dim == 2 || dim == 3) neumann_loop_2d3d(...);
D_Boundary(p) ==
  /\ app = "DirNeu" /\ pc[p] = "elem" /\ D_InRange(p)
  /\ Res' = [ Res EXCEPT ![p] =
                neumann_loop(ResetBuffer(@, nDof_u(iel[p])), dim, iel[p], 0) ]
  /\ Jac' = [ Jac EXCEPT ![p] = ResetBuffer(@, nDof_u(iel[p]) * nDof_u(iel[p])) ]
  /\ sysDof' = [ sysDof EXCEPT ![p] = l2GMap_AllVars(iel[p]) ]
  /\ pc' = [ pc EXCEPT ![p] = "quad" ]
  /\ UNCHANGED << mesh, diagv, prev, main, bdry, mg, pass, assembleMatrix, iel, aRes, backend,
                  stack, hist >>

\* the quadrature point loop;
\* RES->add_vector_blocked(Res, l2GMap_AllVars);
\* if (assembleMatrix) JAC->add_matrix_blocked(Jac, l2GMap_AllVars, l2GMap_AllVars);
D_Volume(p) ==
  /\ app = "DirNeu" /\ pc[p] = "quad"
  /\ LET r == VolumeRes_DirNeu(Res[p], iel[p])
     IN /\ Res' = [ Res EXCEPT ![p] = r ]
        /\ RES' = VecAddOwned(RES, r, sysDof[p], p)
        /\ stashRES' = [ stashRES EXCEPT ![p] = VecAddStash(@, r, sysDof[p], p) ]
  /\ Jac' = [ Jac EXCEPT ![p] =
                IF assembleMatrix THEN VolumeJac_DirNeu(@, iel[p]) ELSE @ ]
  /\ KK' = IF assembleMatrix THEN MatAddOwned(KK, sysDof[p], p) ELSE KK
  /\ stashKK' = [ stashKK EXCEPT ![p] =
                    IF assembleMatrix THEN MatAddStash(@, sysDof[p], p) ELSE @ ]
  /\ hist' = [ hist EXCEPT ![p] =
                 LET h1 == BumpAt(@, "resAdds", iel[p])
                     h2 == IF assembleMatrix THEN BumpAt(h1, "kkAdds", iel[p]) ELSE h1
                 IN [ h2 EXCEPT !.addAfterClose = @ \/ h2.closeRES > 0 ] ]
  /\ iel' = [ iel EXCEPT ![p] = @ + 1 ]
  /\ pc' = [ pc EXCEPT ![p] = "elem" ]
  /\ UNCHANGED << mesh, diagv, prev, main, bdry, mg, pass, assembleMatrix, aRes, sysDof,
                  arrived, released, stack >>

\* RES->close();
D_CloseRES(p) ==
  /\ app = "DirNeu" /\ pc[p] = "elem" /\ ~D_InRange(p)
  /\ CallClose(p, "RES", "none")
  /\ hist' = [ hist EXCEPT ![p] = Bump(@, "closeRES") ]
  /\ pc' = [ pc EXCEPT ![p] = "inCloseRES" ]
  /\ UNCHANGED << mesh, diagv, prev, main, bdry, mg, pass, assembleMatrix, iel, locals, stack >>

\* RES->close() returns; if (assembleMatrix) JAC->close();
\* with the matrix disabled: print_global_residual(...); return;
D_CloseKK(p) ==
  /\ app = "DirNeu" /\ pc[p] = "inCloseRES"
  /\ IF assembleMatrix
       THEN /\ CallClose(p, "KK", "RES")
            /\ hist' = [ hist EXCEPT ![p] = Bump(Bump(@, "retRES"), "closeKK") ]
            /\ pc' = [ pc EXCEPT ![p] = "inCloseKK" ]
       ELSE /\ ReturnFromClose(p, "RES")
            /\ hist' = [ hist EXCEPT ![p] = Bump(@, "retRES") ]
            /\ pc' = [ pc EXCEPT ![p] = "idle" ]
  /\ UNCHANGED << mesh, diagv, prev, main, bdry, mg, pass, assembleMatrix, iel, locals, stack >>

\* JAC->close() returns; print_global_jacobian(...); print_global_residual(...); return;
D_Return(p) ==
  /\ app = "DirNeu" /\ pc[p] = "inCloseKK"
  /\ ReturnFromClose(p, "KK")
  /\ hist' = [ hist EXCEPT ![p] = Bump(@, "retKK") ]
  /\ pc' = [ pc EXCEPT ![p] = "idle" ]
  /\ UNCHANGED << mesh, diagv, prev, main, bdry, mg, pass, assembleMatrix, iel, locals, stack >>

\* ============== CMakeLists.txt of Conformal/ex7: the Boussinesq application
\* double dt = 0.2: the factor 1 / dt of the backward difference
InvDt == 5
alpha == 1
beta == 1
\* 1. / sqrt(Ra * Pr) and sqrt(Pr / Ra) are irrational: each is carried as the
\* unit in which its viscous term is measured.
InvSqrtRaPr == 1
SqrtPrOverRa == 1

nDofsT(e) == GetElementDofNumber(e, SolType("T"))
nDofsV(e) == GetElementDofNumber(e, SolType("U"))
nDofsP(e) == GetElementDofNumber(e, SolType("P"))
nDofsTVP(e, d) == nDofsT(e) + d * nDofsV(e) + nDofsP(e)

\* local copies of the solution S (Sol or SolOld) on element e
solT(S, e, i) == S["T"][GetSolutionDof(i, e, SolType("T"))]
solV(S, e, k, i) == S[VelName(k)][GetSolutionDof(i, e, SolType(VelName(k)))]
solP(S, e, i) == S["P"][GetSolutionDof(i, e, SolType("P"))]

Idx(n) == 0 .. (n - 1)

\* values and gradients of the solution S at the quadrature point ig
solT_gss(S, e, ig) ==
  SumTo(nDofsT(e), [ i \in Idx(nDofsT(e)) |-> PhiTab(nDofsT(e), i, ig) * solT(S, e, i) ])
gradSolT_gss(S, e, j, ig) ==
  SumTo(nDofsT(e), [ i \in Idx(nDofsT(e)) |-> PhiXTab(nDofsT(e), i, j, ig) * solT(S, e, i) ])
solV_gss(S, e, k, ig) ==
  SumTo(nDofsV(e), [ i \in Idx(nDofsV(e)) |-> PhiTab(nDofsV(e), i, ig) * solV(S, e, k, i) ])
gradSolV_gss(S, e, k, j, ig) ==
  SumTo(nDofsV(e),
        [ i \in Idx(nDofsV(e)) |-> PhiXTab(nDofsV(e), i, j, ig) * solV(S, e, k, i) ])
solP_gss(S, e, ig) ==
  SumTo(nDofsP(e), [ i \in Idx(nDofsP(e)) |-> PhiTab(nDofsP(e), i, ig) * solP(S, e, i) ])

\* all of them at one quadrature point: T, gradT[j], V[k], gradV[k][j], P
GaussValues(S, e, d, ig) ==
  [ T  |-> solT_gss(S, e, ig),
    gT |-> MkSeq(d, [ j \in Idx(d) |-> gradSolT_gss(S, e, j, ig) ]),
    V  |-> MkSeq(d, [ k \in Idx(d) |-> solV_gss(S, e, k, ig) ]),
    gV |-> MkSeq(d, [ k \in Idx(d) |->
                        MkSeq(d, [ j \in Idx(d) |-> gradSolV_gss(S, e, k, j, ig) ]) ]),
    P  |-> solP_gss(S, e, ig) ]

\* Temp of the phiT_i loop, from the values g of the current solution at ig
Temp(g, e, d, i, ig) ==
  SumTo(d, [ j \in Idx(d) |->
               InvSqrtRaPr * alpha * PhiXTab(nDofsT(e), i, j, ig) * At(g.gT, j)
               + PhiTab(nDofsT(e), i, ig) * (At(g.V, j) * At(g.gT, j)) ])

\* TempOld of the phiT_i loop, from the values g of the old solution at ig
TempOld(g, e, d, i, ig) ==
  SumTo(d, [ j \in Idx(d) |->
               InvSqrtRaPr * alpha * PhiXTab(nDofsT(e), i, j, ig) * At(g.gT, j)
               + PhiTab(nDofsT(e), i, ig) * (At(g.V, j) * At(g.gT, j)) ])

\* NSV[k] of the phiV_i loop, from the values g of the current solution
NSV(g, e, d, i, k, ig) ==
  SumTo(d, [ j \in Idx(d) |->
               SqrtPrOverRa * PhiXTab(nDofsV(e), i, j, ig)
                 * (At(At(g.gV, k), j) + At(At(g.gV, j), k))
               + PhiTab(nDofsV(e), i, ig) * (At(g.V, j) * At(At(g.gV, k), j)) ])
  - g.P * PhiXTab(nDofsV(e), i, k, ig)
  + (IF k = 1 THEN -beta * g.T * PhiTab(nDofsV(e), i, ig) ELSE 0)

\* NSVold[k] of the phiV_i loop, from the values g of the old solution
NSVold_NoBuoyancy(g, e, d, i, k, ig) ==
  SumTo(d, [ j \in Idx(d) |->
               SqrtPrOverRa * PhiXTab(nDofsV(e), i, j, ig)
                 * (At(At(g.gV, k), j) + At(At(g.gV, j), k))
               + PhiTab(nDofsV(e), i, ig) * (At(g.V, j) * At(At(g.gV, k), j)) ])
  - g.P * PhiXTab(nDofsV(e), i, k, ig)
NSVold(g, e, d, i, k, ig) ==
  SumTo(d, [ j \in Idx(d) |->
               SqrtPrOverRa * PhiXTab(nDofsV(e), i, j, ig)
                 * (At(At(g.gV, k), j) + At(At(g.gV, j), k))
               + PhiTab(nDofsV(e), i, ig) * (At(g.V, j) * At(At(g.gV, k), j)) ])
  - g.P * PhiXTab(nDofsV(e), i, k, ig)
  + (IF k = 1 THEN -beta * g.T * PhiTab(nDofsV(e), i, ig) ELSE 0)

\* (- (cur - old) * phi / dt - 0.5 * (F + Fold)) * weight, weight even
TimeAveraged(cur, old, phi, F, Fold, weight) ==
  (-(cur - old) * phi * InvDt) * weight - (F + Fold) * (weight \div 2)

\* what the point ig adds to aResT[i], aResV[k][i], aResP[i];
\* gc, go: the values of the current and of the old solution
aResT_add(gc, go, e, d, i, ig) ==
  TimeAveraged(gc.T, go.T, PhiTab(nDofsT(e), i, ig),
               Temp(gc, e, d, i, ig), TempOld(go, e, d, i, ig), GaussWeight(ig))
aResV_add(gc, go, e, d, k, i, ig) ==
  TimeAveraged(At(gc.V, k), At(go.V, k), PhiTab(nDofsV(e), i, ig),
               NSV(gc, e, d, i, k, ig), NSVold(go, e, d, i, k, ig), GaussWeight(ig))
aResP_add(gc, e, d, i, ig) ==
  SumTo(d, [ k \in Idx(d) |->
               -(At(At(gc.gV, k), k)) * PhiTab(nDofsP(e), i, ig) * GaussWeight(ig) ])

\* one pass of the Gauss point loop body at the point ig
GaussPoint_Bouss(S, Sold, a, e, d, ig) ==
  LET gc == GaussValues(S, e, d, ig)
      go == GaussValues(Sold, e, d, ig)
  IN [ T |-> MkSeq(Len(a.T),
                   [ i \in Idx(Len(a.T)) |->
                       IF i < nDofsT(e) THEN At(a.T, i) + aResT_add(gc, go, e, d, i, ig)
                       ELSE At(a.T, i) ]),
       V |-> MkSeq(d,
                   [ k \in Idx(d) |->
                       MkSeq(nDofsV(e),
                             [ i \in Idx(nDofsV(e)) |->
                                 At(At(a.V, k), i) + aResV_add(gc, go, e, d, k, i, ig) ]) ]),
       P |-> MkSeq(nDofsP(e),
                   [ i \in Idx(nDofsP(e)) |-> At(a.P, i) + aResP_add(gc, e, d, i, ig) ]) ]

RECURSIVE GaussLoop_Bouss(_, _, _, _, _, _)
\* for (ig = from; ig < GetGaussPointNumber(); ig++) ...
\* S, Sold: the current and the old solution
GaussLoop_Bouss(S, Sold, a, e, d, from) ==
  IF from >= NGauss THEN a
  ELSE GaussLoop_Bouss(S, Sold, GaussPoint_Bouss(S, Sold, a, e, d, from), e, d, from + 1)

\* aResT.resize(nDofsV); fill 0; aResV[k].resize(nDofsV); fill 0; aResP.resize(nDofsP); fill 0
aResZero(e, d) ==
  [ T |-> Zeros(nDofsV(e)),
    V |-> [ k \in 1 .. d |-> Zeros(nDofsV(e)) ],
    P |-> Zeros(nDofsP(e)) ]

\* aResT.resize(nDofsV); fill 0; aResV[k].resize(nDofsV); fill 0;
\* aResP.resize(nDofsP); fill 0;
ResetARes(old, e, d) ==
  [ T |-> ResetBuffer(old.T, nDofsV(e)),
    V |-> [ k \in 1 .. d |-> ResetBuffer(old.V[k], nDofsV(e)) ],
    P |-> ResetBuffer(old.P, nDofsP(e)) ]

\* The Gauss loop of every element on every solution state the passes run on,
\* tabulated: aResOfElement[d][<<S, Sold>>][e] is what the loop leaves in
\* aResT, aResV, aResP.
SolSeeds == 0 .. 2
SolPairs(d) ==
  { << SolFromSeed("Bouss", d, st[1]), SolFromSeed("Bouss", d, st[2]) >> :
      st \in SolSeeds \X SolSeeds }
aResOfElement ==
  [ d \in {2, 3} |->
      [ sp \in SolPairs(d) |->
          [ e \in Elems |->
              GaussLoop_Bouss(sp[1], sp[2], aResZero(e, d), e, d, 0) ] ] ]

\* the field and local dof of a slot: its row of the system, its accumulator
TagDof(tag, e) == GetSystemDof(tag[1], tag[2], e)
TagRes(a, tag) ==
  CASE tag[1] = "T" -> At(a.T, tag[2])
    [] tag[1] = "P" -> At(a.P, tag[2])
    [] tag[1] = "U" -> At(a.V[1], tag[2])
    [] tag[1] = "V" -> At(a.V[2], tag[2])
    [] tag[1] = "W" -> At(a.V[3], tag[2])

RECURSIVE ApplyWrites(_, _, _, _)
\* v[w[s].slot] = vals[s] for s = from + 1 .., in order
ApplyWrites(v, w, vals, from) ==
  IF from >= Len(w) THEN v
  ELSE ApplyWrites(Upd(v, w[from + 1].slot, vals[from + 1]), w, vals, from + 1)

\* the assignments sysDof[...] = GetSystemDof(...) of one element in the order
\* the three loops make them: the slot, and the field and local dof behind it
SysDofWrites(e, d) ==
  [ s \in 1 .. nDofsT(e) |-> [ slot |-> s - 1, tag |-> << "T", s - 1 >> ] ]
    \o [ s \in 1 .. nDofsV(e) * d |->
           LET i == (s - 1) \div d
               k == (s - 1) % d
           IN [ slot |-> i + nDofsT(e) + k * nDofsV(e), tag |-> << VelName(k), i >> ] ]
    \o [ s \in 1 .. nDofsP(e) |->
           [ slot |-> (s - 1) + nDofsT(e) + d * nDofsV(e), tag |-> << "P", s - 1 >> ] ]

\* the velocity residuals stored component by component within each node
ResWrites_ComponentMinor(e, d) ==
  [ s \in 1 .. nDofsT(e) |-> [ slot |-> s - 1, tag |-> << "T", s - 1 >> ] ]
    \o [ s \in 1 .. nDofsV(e) * d |->
           LET i == (s - 1) \div d
               k == (s - 1) % d
           IN [ slot |-> nDofsT(e) + i * d + k, tag |-> << VelName(k), i >> ] ]
    \o [ s \in 1 .. nDofsP(e) |->
           [ slot |-> (s - 1) + nDofsT(e) + d * nDofsV(e), tag |-> << "P", s - 1 >> ] ]

\* the assignments Res[...] = -aRes...[i].value() of one element, likewise
ResWrites(e, d) ==
  [ s \in 1 .. nDofsT(e) |-> [ slot |-> s - 1, tag |-> << "T", s - 1 >> ] ]
    \o [ s \in 1 .. nDofsV(e) * d |->
           LET i == (s - 1) \div d
               k == (s - 1) % d
           IN [ slot |-> i + nDofsT(e) + k * nDofsV(e), tag |-> << VelName(k), i >> ] ]
    \o [ s \in 1 .. nDofsP(e) |->
           [ slot |-> (s - 1) + nDofsT(e) + d * nDofsV(e), tag |-> << "P", s - 1 >> ] ]

\* sysDof.resize(nDofsTVP); sysDof[...] = pdeSys->GetSystemDof(...)
FillSysDof(old, e, d) ==
  LET w == SysDofWrites(e, d)
  IN ApplyWrites(Resize(old, nDofsTVP(e, d), 0), w,
                 [ s \in DOMAIN w |-> TagDof(w[s].tag, e) ], 0)

\* Res.resize(nDofsTVP); Res[...] = -aRes...[i].value()
FillRes(old, a, e, d) ==
  LET w == ResWrites(e, d)
  IN ApplyWrites(Resize(old, nDofsTVP(e, d), 0), w,
                 [ s \in DOMAIN w |-> 0 - TagRes(a, w[s].tag) ], 0)

\* ----------------------------------------------------- adept::Stack
StackInit == [ paused |-> FALSE, ops |-> {}, deps |-> << >>, indeps |-> << >> ]

continue_recording(st) == [ st EXCEPT !.paused = FALSE ]
pause_recording(st) == [ st EXCEPT !.paused = TRUE ]
\* new_recording(): the tape and the declarations are emptied
new_recording(st) == [ st EXCEPT !.ops = {}, !.deps = << >>, !.indeps = << >> ]
\* operations on adept::adouble values of element e are taped unless paused
record_ops(st, e) == IF st.paused THEN st ELSE [ st EXCEPT !.ops = @ \cup {e} ]
\* s.dependent(&v[0], n) / s.independent(&v[0], n) for the array of field f
Block(f, n) == [ s \in 1 .. n |-> << f, s - 1 >> ]
dependent(st, f, n) == [ st EXCEPT !.deps = @ \o Block(f, n) ]
independent(st, f, n) == [ st EXCEPT !.indeps = @ \o Block(f, n) ]
clear_independents(st) == [ st EXCEPT !.indeps = << >> ]
clear_dependents(st) == [ st EXCEPT !.deps = << >> ]

RECURSIVE DeclareVel(_, _, _, _, _)
\* for (k = from; k < dim; k++) s.dependent / s.independent (&...V[k][0], nDofsV)
DeclareVel(st, dep, e, from, d) ==
  IF from >= d THEN st
  ELSE DeclareVel(IF dep THEN dependent(st, VelName(from), nDofsV(e))
                  ELSE independent(st, VelName(from), nDofsV(e)),
                  dep, e, from + 1, d)

\* The dependents declared pressure first.
DeclareDependents_PFirst(st, e, d) ==
  DeclareVel(dependent(dependent(st, "P", nDofsP(e)), "T", nDofsT(e)), TRUE, e, 0, d)

\* the dependent(...) calls, in the order of the code
DeclareDependents(st, e, d) ==
  dependent(DeclareVel(dependent(st, "T", nDofsT(e)), TRUE, e, 0, d), "P", nDofsP(e))

\* the independent(...) calls, in the order of the code
DeclareIndependents(st, e, d) ==
  independent(DeclareVel(independent(st, "T", nDofsT(e)), FALSE, e, 0, d), "P", nDofsP(e))

\* s.jacobian(&Jac[0], true): row r is dependent r, column c is independent c;
\* the block is kept by its row and column labels.
jacobian(st) == [ rows |-> st.deps, cols |-> st.indeps, tape |-> st.ops ]
NoJac == [ rows |-> << >>, cols |-> << >>, tape |-> {} ]

\* ================================ AssembleBoussinesqAppoximation_AD
\* A toggle that pauses the recording but never resumes it.
SetRecording_PauseOnly(st, am) == IF am THEN st ELSE pause_recording(st)

\* if (assembleMatrix) s.continue_recording(); else s.pause_recording();
SetRecording(st, am) == IF am THEN continue_recording(st) ELSE pause_recording(st)

\* An element that keeps recording on the tape of the previous one.
OpenRecording_Skip(st, am) == st

\* if (assembleMatrix) s.new_recording();
OpenRecording(st, am) == IF am THEN new_recording(st) ELSE st

\* A loop that stops one element short of the owned range.
B_InRange_Short(p) == iel[p] + 1 < elementOffset[iproc(p) + 1]

\* the loop condition iel < msh->_elementOffset[iproc + 1]
B_InRange(p) == iel[p] < elementOffset[iproc(p) + 1]

\* if (assembleMatrix) s.continue_recording(); else s.pause_recording();
\* ... if (assembleMatrix) KK->zero();
B_Start(p) ==
  /\ app = "Bouss" /\ pc[p] = "start"
  /\ stack' = [ stack EXCEPT ![p] = SetRecording(@, assembleMatrix) ]
  /\ KK' = IF assembleMatrix THEN MatZero(KK, p) ELSE KK
  /\ iel' = [ iel EXCEPT ![p] = elementOffset[iproc(p)] ]
  /\ hist' = [ hist EXCEPT ![p] = IF assembleMatrix THEN Bump(@, "zeroKK") ELSE @ ]
  /\ pc' = [ pc EXCEPT ![p] = "elem" ]
  /\ UNCHANGED << mesh, diagv, prev, main, bdry, mg, pass, assembleMatrix, locals, RES, stashRES, stashKK,
                  arrived, released >>

\* for (iel ...) { resize and zero the local arrays; fill sysDof;
\*                 if (assembleMatrix) s.new_recording();
\*                 the Gauss point loop
B_Element(p) ==
  /\ app = "Bouss" /\ pc[p] = "elem" /\ B_InRange(p)
  /\ aRes' = [ aRes EXCEPT ![p] =
                 LET a == ResetARes(@, iel[p], dim)
                 IN IF a = aResZero(iel[p], dim)
                      THEN aResOfElement[dim][<< Sol, SolOld >>][iel[p]]
                      ELSE GaussLoop_Bouss(Sol, SolOld, a, iel[p], dim, 0) ]
  /\ sysDof' = [ sysDof EXCEPT ![p] = FillSysDof(@, iel[p], dim) ]
  /\ stack' = [ stack EXCEPT ![p] =
                  record_ops(OpenRecording(@, assembleMatrix), iel[p]) ]
  /\ hist' = [ hist EXCEPT ![p] =
                 IF assembleMatrix
                   THEN [ Bump(BumpAt(@, "newRec", iel[p]), "adCalls")
                            EXCEPT !.overlap = @ \/ hist[p].open # {},
                                   !.open = @ \cup {iel[p]} ]
                   ELSE @ ]
  /\ pc' = [ pc EXCEPT ![p] = "scatter" ]
  /\ UNCHANGED << mesh, diagv, prev, main, bdry, mg, pass, assembleMatrix, iel, Res, Jac, backend >>

\* Res[...] = -aRes...value(); RES->add_vector_blocked(Res, sysDof);
\* with the matrix disabled this ends the element
B_Scatter(p) ==
  /\ app = "Bouss" /\ pc[p] = "scatter"
  /\ LET r == FillRes(Res[p], aRes[p], iel[p], dim)
     IN /\ Res' = [ Res EXCEPT ![p] = r ]
        /\ RES' = VecAddOwned(RES, r, sysDof[p], p)
        /\ stashRES' = [ stashRES EXCEPT ![p] = VecAddStash(@, r, sysDof[p], p) ]
  /\ hist' = [ hist EXCEPT ![p] =
                 [ BumpAt(@, "resAdds", iel[p])
                     EXCEPT !.addAfterClose = @ \/ hist[p].closeRES > 0 ] ]
  /\ iel' = [ iel EXCEPT ![p] = IF assembleMatrix THEN @ ELSE @ + 1 ]
  /\ pc' = [ pc EXCEPT ![p] = IF assembleMatrix THEN "declare" ELSE "elem" ]
  /\ UNCHANGED << mesh, diagv, prev, main, bdry, mg, pass, assembleMatrix, aRes, Jac, sysDof, KK, stashKK,
                  arrived, released, stack >>

\* if (assembleMatrix) { Jac.resize; s.dependent(...) ...; s.independent(...) ...;
B_Declare(p) ==
  /\ app = "Bouss" /\ pc[p] = "declare"
  /\ stack' = [ stack EXCEPT ![p] =
                  DeclareIndependents(DeclareDependents(@, iel[p], dim), iel[p], dim) ]
  /\ hist' = [ hist EXCEPT ![p] = [ @ EXCEPT !.adCalls = @ + 2 * (dim + 2) ] ]
  /\ pc' = [ pc EXCEPT ![p] = "jacobian" ]
  /\ UNCHANGED << mesh, diagv, prev, main, bdry, mg, pass, assembleMatrix, iel, locals, backend >>

\* s.jacobian(&Jac[0], true); KK->add_matrix_blocked(Jac, sysDof, sysDof);
\* s.clear_independents(); s.clear_dependents(); }  -- end of the element
B_Jacobian(p) ==
  /\ app = "Bouss" /\ pc[p] = "jacobian"
  /\ Jac' = [ Jac EXCEPT ![p] = jacobian(stack[p]) ]
  /\ KK' = MatAddOwned(KK, sysDof[p], p)
  /\ stashKK' = [ stashKK EXCEPT ![p] = MatAddStash(@, sysDof[p], p) ]
  /\ stack' = [ stack EXCEPT ![p] = clear_dependents(clear_independents(@)) ]
  /\ hist' = [ hist EXCEPT ![p] =
                 [ Bump(BumpAt(BumpAt(@, "jacobian", iel[p]), "kkAdds", iel[p]), "adCalls")
                     EXCEPT !.open = @ \ {iel[p]},
                            !.addAfterClose = @ \/ hist[p].closeRES > 0 ] ]
  /\ iel' = [ iel EXCEPT ![p] = @ + 1 ]
  /\ pc' = [ pc EXCEPT ![p] = "elem" ]
  /\ UNCHANGED << mesh, diagv, prev, main, bdry, mg, pass, assembleMatrix, aRes, Res, sysDof, RES, stashRES,
                  arrived, released >>

\* RES->close();
B_CloseRES(p) ==
  /\ app = "Bouss" /\ pc[p] = "elem" /\ ~B_InRange(p)
  /\ CallClose(p, "RES", "none")
  /\ hist' = [ hist EXCEPT ![p] = Bump(@, "closeRES") ]
  /\ pc' = [ pc EXCEPT ![p] = "inCloseRES" ]
  /\ UNCHANGED << mesh, diagv, prev, main, bdry, mg, pass, assembleMatrix, iel, locals, stack >>

\* RES->close() returns; if (assembleMatrix) { KK->close(); }
\* -- otherwise the assembler returns
B_CloseKK(p) ==
  /\ app = "Bouss" /\ pc[p] = "inCloseRES"
  /\ IF assembleMatrix
       THEN /\ CallClose(p, "KK", "RES")
            /\ hist' = [ hist EXCEPT ![p] = Bump(Bump(@, "retRES"), "closeKK") ]
            /\ pc' = [ pc EXCEPT ![p] = "inCloseKK" ]
       ELSE /\ ReturnFromClose(p, "RES")
            /\ hist' = [ hist EXCEPT ![p] = Bump(@, "retRES") ]
            /\ pc' = [ pc EXCEPT ![p] = "idle" ]
  /\ UNCHANGED << mesh, diagv, prev, main, bdry, mg, pass, assembleMatrix, iel, locals, stack >>

\* KK->close() returns; the assembler returns
B_Return(p) ==
  /\ app = "Bouss" /\ pc[p] = "inCloseKK"
  /\ ReturnFromClose(p, "KK")
  /\ hist' = [ hist EXCEPT ![p] = Bump(@, "retKK") ]
  /\ pc' = [ pc EXCEPT ![p] = "idle" ]
  /\ UNCHANGED << mesh, diagv, prev, main, bdry, mg, pass, assembleMatrix, iel, locals, stack >>

\* ============================================== GetKineandPointVlaue
NoNode == 0 - 1
\* where the probe point may lie: nowhere, on the vertex shared by the first
\* two cells, or inside the last cell
ProbeChoices == { NoNode, 1, NElem + NElem }
IsProbe(n) == probeNode = n

DiagInit ==
  [ kineticEnergy |-> 0, recordCoord |-> 0, ptUCoord |-> 0, ptVCoord |-> 0,
    set |-> {}, done |-> FALSE ]
NoEntries == [ q \in Procs |-> << >> ]

\* fabs(x) > 1.0e-6, the velocities being whole multiples of 1.0e-6
Tol == 1
Abs(x) == IF x < 0 THEN -x ELSE x
ExceedsTol(x) == Abs(x) > Tol

RECURSIVE ProbeLoop(_, _, _)
\* for (i = from; i < nDofsX; i++) if (the node is the probe point) { ... }
ProbeLoop(g, e, from) ==
  IF from >= GetElementDofNumber(e, "SECOND") THEN g
  ELSE ProbeLoop(IF IsProbe(GetSolutionDof(from, e, "SECOND"))
                   THEN [ g EXCEPT !.ptUCoord = solV(Sol, e, 0, from),
                                   !.ptVCoord = solV(Sol, e, 1, from),
                                   !.recordCoord = 1 ]
                   ELSE g,
                 e, from + 1)

\* the Gauss point loop of one element: kineticEnergy += solV_gss[k]^2 * weight
KineticOfElem(e, d) ==
  SumTo(NGauss,
        [ ig \in GaussPoints |->
            SumTo(d, [ k \in Idx(d) |->
                         solV_gss(Sol, e, k, ig) * solV_gss(Sol, e, k, ig)
                           * GaussWeight(ig) ]) ])

RECURSIVE KineLoop(_, _, _, _)
\* for (iel = from; iel < to; iel++) ...
KineLoop(g, from, to, d) ==
  IF from >= to THEN g
  ELSE LET g1 == IF g.recordCoord = 0 THEN ProbeLoop(g, from, 0) ELSE g
       IN KineLoop([ g1 EXCEPT !.kineticEnergy = @ + KineticOfElem(from, d) ],
                   from + 1, to, d)

\* out_vec->set(i, v) on process p, then out_vec->close() is called; with
\* returning, p first returns from the close() it was in.  The last caller
\* completes the exchange, and out_closed is the vector as that close left it.
SetAndCallClose(p, i, v, returning) ==
  LET now == arrived["OUT"] \cup {p}
      last == now = Procs
      rel == IF returning THEN released["OUT"] \ {p} ELSE released["OUT"]
      vec == IF i = p THEN [ out_vec EXCEPT ![i] = v ] ELSE out_vec
      st == IF i = p THEN out_stash ELSE [ out_stash EXCEPT ![p][i] = << v >> ]
      merged == [ q \in Procs |->
                    IF \E r \in Procs : st[r][q] # << >>
                      THEN (st[CHOOSE r \in Procs : st[r][q] # << >>][q])[1]
                      ELSE vec[q] ]
  IN /\ returning => MayReturnFromClose(p, "OUT")
     /\ arrived' = [ arrived EXCEPT !["OUT"] = IF last THEN {} ELSE now ]
     /\ released' = [ released EXCEPT !["OUT"] = IF last THEN Procs ELSE rel ]
     /\ out_vec' = IF last THEN merged ELSE vec
     /\ out_closed' = IF last THEN merged ELSE out_closed
     /\ out_stash' = IF last THEN [ r \in Procs |-> NoEntries ] ELSE st

ReturnFromCloseOut(p) ==
  /\ MayReturnFromClose(p, "OUT")
  /\ released' = [ released EXCEPT !["OUT"] = @ \ {p} ]
  /\ UNCHANGED << arrived, out_vec, out_closed, out_stash >>

\* NumericVector::l1_norm(), max(), min()
l1_norm(v) == SumTo(NProc, [ q \in Procs |-> Abs(v[q]) ])
VecMax(v) == CHOOSE x \in Range(v) : \A y \in Range(v) : y <= x
VecMin(v) == CHOOSE x \in Range(v) : \A y \in Range(v) : x <= y

\* kineticEnergy = out_vec->l1_norm();
ReduceKinetic_Max(v) == VecMax(v)
ReduceKinetic(v) == l1_norm(v)

\* ptCoord1 = max; ptCoord2 = min;
\* if (fabs(ptCoord1) > 1.0e-6) pt = ptCoord1; if (fabs(ptCoord2) > 1.0e-6) pt = ptCoord2;
MaxMinSelect(pt, v) ==
  LET a == IF ExceedsTol(VecMax(v)) THEN VecMax(v) ELSE pt
  IN IF ExceedsTol(VecMin(v)) THEN VecMin(v) ELSE a

\* main: system.MGsolve() has returned; every process calls GetKineandPointVlaue
\* every process enters GetKineandPointVlaue; n is where the probe point lies
DiagEntry(n) ==
  /\ \A p \in Procs : pc[p] = "idle"
  /\ probeNode' = n
  /\ diag' = [ p \in Procs |-> DiagInit ]
  /\ out_vec' = [ q \in Procs |-> 0 ]
  /\ out_stash' = [ p \in Procs |-> NoEntries ]
  /\ out_closed' = [ q \in Procs |-> 0 ]
  /\ pc' = [ p \in Procs |-> "g_loop" ]
  /\ UNCHANGED << mesh, pass, assembleMatrix, iel, locals, backend, stack, hist,
                  prev, bdry, mg >>

BeginDiag(n) ==
  /\ app = "Bouss" /\ pass = MaxPass
  /\ \A p \in Procs : ~diag[p].done
  /\ DiagEntry(n)
  /\ UNCHANGED main

asm == << pass, assembleMatrix, iel, locals, RES, stashRES, KK, stashKK, stack, hist >>

\* the element loop over the owned elements; out_vec->init(n_processors, 1, ...);
\* out_vec->set(iproc, kineticEnergy); out_vec->close();
G_Kinetic(p) ==
  /\ pc[p] = "g_loop"
  /\ LET g == KineLoop(diag[p], elementOffset[iproc(p)], elementOffset[iproc(p) + 1], dim)
     IN /\ SetAndCallClose(p, iproc(p), g.kineticEnergy, FALSE)
        /\ diag' = [ diag EXCEPT ![p] = [ g EXCEPT !.set = @ \cup {iproc(p)} ] ]
  /\ pc' = [ pc EXCEPT ![p] = "g_normKE" ]
  /\ UNCHANGED << mesh, asm, prev, main, bdry, mg, probeNode >>

\* kineticEnergy = out_vec->l1_norm();
\* out_vec->set(iproc, ptUCoord); out_vec->close();
G_PointU(p) ==
  /\ pc[p] = "g_normKE"
  /\ SetAndCallClose(p, iproc(p), diag[p].ptUCoord, TRUE)
  /\ diag' = [ diag EXCEPT ![p].kineticEnergy = ReduceKinetic(out_closed),
                           ![p].set = @ \cup {iproc(p)} ]
  /\ pc' = [ pc EXCEPT ![p] = "g_maxminU" ]
  /\ UNCHANGED << mesh, asm, prev, main, bdry, mg, probeNode >>

\* ptCoord1 = out_vec->max(); ptCoord2 = out_vec->min(); if ... ptUCoord = ...
\* out_vec->set(iproc, ptVCoord); out_vec->close();
G_PointV(p) ==
  /\ pc[p] = "g_maxminU"
  /\ SetAndCallClose(p, iproc(p), diag[p].ptVCoord, TRUE)
  /\ diag' = [ diag EXCEPT ![p].ptUCoord = MaxMinSelect(@, out_closed),
                           ![p].set = @ \cup {iproc(p)} ]
  /\ pc' = [ pc EXCEPT ![p] = "g_maxminV" ]
  /\ UNCHANGED << mesh, asm, prev, main, bdry, mg, probeNode >>

\* ptCoord1 = out_vec->max(); ... ptVCoord = ...; delete out_vec; return out_value;
G_Return(p) ==
  /\ pc[p] = "g_maxminV"
  /\ ReturnFromCloseOut(p)
  /\ diag' = [ diag EXCEPT ![p].ptVCoord = MaxMinSelect(@, out_closed), ![p].done = TRUE ]
  /\ pc' = [ pc EXCEPT ![p] = "idle" ]
  /\ UNCHANGED << mesh, asm, prev, main, bdry, mg, probeNode >>

\* ========================================================== the driver
\* system.MGsolve() asks every process for an assembly pass, with or without
\* the matrix.
BeginPass(am) ==
  /\ pass < MaxPass
  /\ \A p \in Procs : pc[p] = "idle"
  /\ pass' = pass + 1
  /\ assembleMatrix' = am
  /\ pc' = [ p \in Procs |-> "start" ]
  /\ hist' = [ p \in Procs |-> HistInit ]
  /\ prev' = [ n |-> pass, assembleMatrix |-> assembleMatrix, RES |-> RES ]
  /\ UNCHANGED << mesh, diagv, main, bdry, mg, iel, locals, backend, stack >>

\* the mesh is partitioned, the system is built, nothing has run yet
InitSystem ==
  /\ app \in Apps
  /\ dim \in (IF app = "DirNeu" THEN {1, 2, 3} ELSE {2, 3})
  /\ elementOffset \in Partitions
  /\ owner = OwnerTable(app, dim, elementOffset)
  /\ mg = MgIdle
  /\ pass = 0
  /\ assembleMatrix = FALSE
  /\ pc = [ p \in Procs |-> "idle" ]
  /\ iel = [ p \in Procs |-> 0 ]
  /\ aRes = [ p \in Procs |->
                [ T |-> << >>, V |-> [ k \in 1 .. dim |-> << >> ], P |-> << >> ] ]
  /\ Res = [ p \in Procs |-> << >> ]
  /\ Jac = [ p \in Procs |-> IF app = "DirNeu" THEN << >> ELSE NoJac ]
  /\ sysDof = [ p \in Procs |-> << >> ]
  /\ RES = ZeroVec
  /\ stashRES = [ p \in Procs |-> ZeroVec ]
  /\ KK = ZeroVec
  /\ stashKK = [ p \in Procs |-> ZeroVec ]
  /\ arrived = [ obj \in {"RES", "KK", "OUT"} |-> {} ]
  /\ released = [ obj \in {"RES", "KK", "OUT"} |-> {} ]
  /\ stack = [ p \in Procs |-> StackInit ]
  /\ hist = [ p \in Procs |-> HistInit ]
  /\ probeNode = NoNode
  /\ diag = [ p \in Procs |-> DiagInit ]
  /\ out_vec = [ q \in Procs |-> 0 ]
  /\ out_stash = [ p \in Procs |-> NoEntries ]
  /\ out_closed = [ q \in Procs |-> 0 ]
  /\ prev = [ n |-> 0, assembleMatrix |-> FALSE, RES |-> ZeroVec ]

InitAssembly ==
  /\ InitSystem
  /\ \E st \in SolStates :
       /\ Sol = SolFromSeed(app, dim, st[1])
       /\ SolOld = SolFromSeed(app, dim, st[2])

Init ==
  /\ InitAssembly
  /\ main = MainIdle
  /\ bdry = BdryIdle

Next ==
  \/ \E am \in BOOLEAN : BeginPass(am)
  \/ \E p \in Procs :
       \/ D_Start(p) \/ D_Boundary(p) \/ D_Volume(p)
       \/ D_CloseRES(p) \/ D_CloseKK(p) \/ D_Return(p)
       \/ B_Start(p) \/ B_Element(p) \/ B_Scatter(p) \/ B_Declare(p) \/ B_Jacobian(p)
       \/ B_CloseRES(p) \/ B_CloseKK(p) \/ B_Return(p)
       \/ G_Kinetic(p) \/ G_PointU(p) \/ G_PointV(p) \/ G_Return(p)
  \/ \E n \in ProbeChoices : BeginDiag(n)

Spec == Init /\ [][Next]_vars

\* ============================= main() of the Boussinesq application
\* args[1] as given on the command line; << >> when argc < 2
ArgChoices ==
  { << >> } \cup { << a >> : a \in { "FS_VT", "FS_TV", "ASM_VT", "ASM_TV",
                                    "ILU_VT", "ILU_TV", "other" } }

\* enum PrecType { FS_VTp = 1, FS_TVp, ASM_VTp, ASM_TVp, ILU_VTp, ILU_TVp }
PrecTypeOf(a) ==
  CASE a = "FS_VT"  -> 1
    [] a = "FS_TV"  -> 2
    [] a = "ASM_VT" -> 3
    [] a = "ASM_TV" -> 4
    [] a = "ILU_VT" -> 5
    [] a = "ILU_TV" -> 6
    [] OTHER        -> 0

NoTree == [ name |-> "none", solver |-> "none", preconditioner |-> "none",
            fields |-> << >>, types |-> << >>, children |-> << >>,
            asmBlockSize |-> 0, schurVariables |-> 0 ]

MainStart(a) ==
  [ pc |-> "args", args |-> a, precType |-> 0,
    mlSol |-> << >>, solPde |-> << >>,
    fieldUVP |-> << >>, solutionTypeUVP |-> << >>,
    fieldT |-> << >>, solutionTypeT |-> << >>,
    FS_NS |-> NoTree, FS_T |-> NoTree, FS_NST |-> NoTree,
    solverType |-> "none", mgType |-> "none", fieldSplitTree |-> "none" ]

\* system.GetSolPdeIndex(name): the position of name among the unknowns
RECURSIVE IndexFrom(_, _, _)
IndexFrom(list, name, i) ==
  IF i >= Len(list) THEN i
  ELSE IF At(list, i) = name THEN i ELSE IndexFrom(list, name, i + 1)
GetSolPdeIndex(list, name) == IndexFrom(list, name, 0)

\* mlSol.GetSolutionType(name)
GetSolutionType(name) == SolType(name)

\* FieldSplitTree(solver, preconditioner, fields, types, name): a leaf
FieldSplitLeaf(solver, prec, fields, types, name) ==
  [ name |-> name, solver |-> solver, preconditioner |-> prec,
    fields |-> fields, types |-> types, children |-> << >>,
    asmBlockSize |-> 0, schurVariables |-> 0 ]

\* FieldSplitTree(solver, preconditioner, children, name): an inner node
FieldSplitNode(solver, prec, children, name) ==
  [ name |-> name, solver |-> solver, preconditioner |-> prec,
    fields |-> << >>, types |-> << >>, children |-> children,
    asmBlockSize |-> 0, schurVariables |-> 0 ]

SetAsmBlockSize(t, n) == [ t EXCEPT !.asmBlockSize = n ]
SetAsmNumeberOfSchurVariables(t, n) == [ t EXCEPT !.schurVariables = n ]

assembly_but_bdry ==
  << app, dim, elementOffset, owner, Sol, SolOld, pass, assembleMatrix,
     pc, iel, aRes, Res, Jac, sysDof, RES, stashRES, KK, stashKK,
     arrived, released, stack, hist, probeNode, diag, out_vec,
     out_stash, out_closed, prev >>
assembly == << app, dim, elementOffset, owner, Sol, SolOld, pass, assembleMatrix,
               pc, iel, aRes, Res, Jac, sysDof, RES, stashRES, KK, stashKK,
               arrived, released, stack, hist, probeNode, diag, out_vec,
               out_stash, out_closed, prev, bdry, mg >>

\* if (argc >= 2) { ... if (precType == 0) abort(); } else precType = FS_VTp;
Main_ParseArgs ==
  /\ main.pc = "args"
  /\ LET t == IF Len(main.args) >= 1 THEN PrecTypeOf(main.args[1]) ELSE 1
     IN main' = [ main EXCEPT !.precType = t,
                              !.pc = IF t = 0 THEN "aborted" ELSE "mesh" ]
  /\ UNCHANGED assembly

\* mlSol.AddSolution("T" ...); "U"; "V"; if (dim == 3) "W"; "P"
Main_AddSolution ==
  /\ main.pc = "mesh"
  /\ main' = [ main EXCEPT
                 !.mlSol = IF dim = 3 THEN << "T", "U", "V", "W", "P" >>
                           ELSE << "T", "U", "V", "P" >>,
                 !.pc = "system" ]
  /\ UNCHANGED assembly

\* system.AddSolutionToSystemPDE("U"); "V"; "P"; if (dim == 3) "W"; "T"
Main_AddSolutionToSystemPDE ==
  /\ main.pc = "system"
  /\ main' = [ main EXCEPT !.solPde = SolPdeFields(app, dim), !.pc = "fs_ns" ]
  /\ UNCHANGED assembly

\* fieldUVP, solutionTypeUVP, FS_NS
Main_FS_NS ==
  /\ main.pc = "fs_ns"
  /\ LET f == << GetSolPdeIndex(main.solPde, "U"), GetSolPdeIndex(main.solPde, "V"),
                 GetSolPdeIndex(main.solPde, "P") >>
         t == << GetSolutionType("U"), GetSolutionType("V"), GetSolutionType("P") >>
     IN main' = [ main EXCEPT
                    !.fieldUVP = f, !.solutionTypeUVP = t,
                    !.FS_NS = SetAsmNumeberOfSchurVariables(
                                SetAsmBlockSize(
                                  FieldSplitLeaf("PREONLY", "ASM_PRECOND", f, t,
                                                 "Navier-Stokes"), 4), 1),
                    !.pc = "fs_t" ]
  /\ UNCHANGED assembly

\* fieldT, solutionTypeT, FS_T
Main_FS_T ==
  /\ main.pc = "fs_t"
  /\ LET f == << GetSolPdeIndex(main.solPde, "T") >>
         t == << GetSolutionType("T") >>
     IN main' = [ main EXCEPT
                    !.fieldT = f, !.solutionTypeT = t,
                    !.FS_T = SetAsmNumeberOfSchurVariables(
                               SetAsmBlockSize(
                                 FieldSplitLeaf("PREONLY", "ASM_PRECOND", f, t,
                                                "Temperature"), 4), 1),
                    !.pc = "fs_nst" ]
  /\ UNCHANGED assembly

\* FS2 = { &FS_NS, &FS_T }; FS_NST(RICHARDSON, FIELDSPLIT_PRECOND, FS2, "Benard")
Main_FS_NST ==
  /\ main.pc = "fs_nst"
  /\ main' = [ main EXCEPT
                 !.FS_NST = FieldSplitNode("RICHARDSON", "FIELDSPLIT_PRECOND",
                                           << main.FS_NS, main.FS_T >>, "Benard"),
                 !.pc = "solver" ]
  /\ UNCHANGED assembly

\* SetLinearEquationSolverType(FEMuS_FIELDSPLIT); ... SetMgType(F_CYCLE); ...
\* system.init(); ... SetFieldSplitTree(&FS_NST); ...
Main_ConfigureSolver ==
  /\ main.pc = "solver"
  /\ main' = [ main EXCEPT !.solverType = "FEMuS_FIELDSPLIT",
                           !.mgType = "F_CYCLE",
                           !.fieldSplitTree = "Benard",
                           !.pc = "ready" ]
  /\ UNCHANGED assembly

InitMain ==
  /\ InitAssembly
  /\ app = "Bouss"
  /\ \E a \in ArgChoices : main = MainStart(a)
  /\ bdry = BdryIdle

NextMain ==
  \/ Main_ParseArgs
  \/ Main_AddSolution
  \/ Main_AddSolutionToSystemPDE
  \/ Main_FS_NS
  \/ Main_FS_T
  \/ Main_FS_NST
  \/ Main_ConfigureSolver

SpecMain == InitMain /\ [][NextMain]_vars

\* ==================== neumann_loop_1d, neumann_loop_2d3d of shaflynn.cpp
NGaussBdry == 2    \* quadrature points of the face rule

\* the cell of the call: an edge, a triangle, a quadrilateral, a tetrahedron
Geoms == { "line", "tri", "quad", "tet" }
GeomDim(g) == IF g = "line" THEN 1 ELSE IF g = "tet" THEN 3 ELSE 2
\* msh->GetElementFaceNumber(iel)
FaceNumberOf(g) == IF g = "line" THEN 2 ELSE IF g = "tri" THEN 3 ELSE 4
\* msh->GetElementFaceDofNumber(iel, jface, solFEType_u), "d_s" being LAGRANGE FIRST
FaceDofNumberOf(g) == GeomDim(g)
\* number of dofs of "d_s" in the cell
CellDofNumberOf(g) == IF g = "line" THEN 2 ELSE IF g = "tri" THEN 3 ELSE 4
\* msh->GetLocalFaceVertexIndex(iel, jface, i)
LocalFaceVertexIndexOf(g, jface, i) ==
  CASE g = "line" -> jface
    [] g = "tri"  -> (jface + i) % 3
    [] g = "quad" -> (jface + i) % 4
    [] g = "tet"  -> << << 0, 2, 1 >>, << 0, 1, 3 >>, << 1, 2, 3 >>, << 2, 0, 3 >> >>
                       [jface + 1][i + 1]
\* coordinates of the vertices of the cell, in sixths of its edge length
VertexCoord(g, v) ==
  CASE g = "line" -> << << 0, 0, 0 >>, << 6, 0, 0 >> >>[v + 1]
    [] g = "tri"  -> << << 0, 0, 0 >>, << 6, 0, 0 >>, << 0, 6, 0 >> >>[v + 1]
    [] g = "quad" -> << << 0, 0, 0 >>, << 6, 0, 0 >>, << 6, 6, 0 >>, << 0, 6, 0 >> >>[v + 1]
    [] g = "tet"  -> << << 0, 0, 0 >>, << 6, 0, 0 >>, << 0, 6, 0 >>, << 0, 0, 6 >> >>[v + 1]

\* geom_element.set_coords_at_dofs_bdry_3d(iel, jface, xType)
coords_at_dofs_bdry_3d(g, jface) ==
  [ i \in 1 .. FaceDofNumberOf(g) |->
      VertexCoord(g, LocalFaceVertexIndexOf(g, jface, i - 1)) ]
\* geom_element.set_elem_center_bdry_3d(); get_elem_center_bdry_3d():
\* the mean of the coordinates of the face
elem_center_bdry_3d(g, jface) ==
  LET c == coords_at_dofs_bdry_3d(g, jface)
      n == Len(c)
  IN [ k \in 1 .. 3 |-> SumTo(n, [ i \in 0 .. (n - 1) |-> c[i + 1][k] ]) \div n ]

\* detJac_iqp_bdry as JacJacInv leaves it for the face and the quadrature point
detJac_iqp_bdry(g, jface, ig_bdry) == jface + 1
\* ml_prob->GetQuadratureRule(ielGeom_bdry).GetGaussWeightsPointer()[ig_bdry]
GaussWeightBdry(ig_bdry) == ig_bdry + 1
\* phi_u_bdry[i_bdry] as shape_funcs_current_elem leaves it
phi_u_bdry(i_bdry, ig_bdry) == 1 + ((i_bdry + ig_bdry) % 2)

\* the predicate ml_sol->GetBdcFunctionMLProb() returns: the one main attaches
\* (SetBoundaryCondition), or another application's, here one with a Dirichlet
\* group and non-zero data on the other groups
BdcChoices == { "SetBoundaryCondition", "other" }
BdcFunctionMLProb(which, d, x, name, face, time) ==
  IF which = "SetBoundaryCondition" THEN SetBoundaryCondition_DirNeu(d, face)
  ELSE IF face = 3 THEN [ dirichlet |-> TRUE, value |-> 3 ]
  ELSE [ dirichlet |-> FALSE, value |-> face - 1 ]

\* msh->el->GetFaceElementIndex(iel, jface) of the faces of the cell: the
\* neighbour, or -(group + 1) on the physical boundary
FaceIndexChoices == { 0 - 4, 0 - 2, 0 - 1, 0 }
FaceIndexTables(g) == [ 1 .. FaceNumberOf(g) -> FaceIndexChoices ]

\* unsigned int face = - (boundary_index + 1);
FaceOf_Negated(boundary_index) == -boundary_index
FaceOf(boundary_index) == -(boundary_index + 1)

\* if (boundary_index < 0) { ... is_dirichlet = GetBdcFunctionMLProb()(ml_prob,
\*   xx_face_elem_center, solname_u.c_str(), grad_u_dot_n, face, 0.); ... }
\* the calls of the predicate made for one face, each with what it returned
CallsOfFace_EveryFace(b, jface) ==
  LET x == elem_center_bdry_3d(b.geom, jface)
      face == FaceOf(b.index[jface + 1])
  IN << [ jface |-> jface, x |-> x, name |-> "d_s", face |-> face, time |-> 0,
          ret |-> BdcFunctionMLProb(b.bdc, GeomDim(b.geom), x, "d_s", face, 0) ] >>
CallsOfFace(b, jface) ==
  IF b.index[jface + 1] < 0
    THEN LET x == elem_center_bdry_3d(b.geom, jface)
             face == FaceOf(b.index[jface + 1])
         IN << [ jface |-> jface, x |-> x, name |-> "d_s", face |-> face, time |-> 0,
                 ret |-> BdcFunctionMLProb(b.bdc, GeomDim(b.geom), x, "d_s", face, 0) ] >>
    ELSE << >>

\* weight_iqp_bdry = detJac_iqp_bdry * GetGaussWeightsPointer()[ig_bdry];
weight_iqp_bdry_NoJacobian(g, jface, ig_bdry) == GaussWeightBdry(ig_bdry)
weight_iqp_bdry(g, jface, ig_bdry) ==
  detJac_iqp_bdry(g, jface, ig_bdry) * GaussWeightBdry(ig_bdry)

\* for (i_bdry ...) Res[i_vol] += weight_iqp_bdry * grad_u_dot_n * phi_u_bdry[i_bdry];
\* every += of one face quadrature point, in order
AddsOfPoint_2d3d(g, jface, ig_bdry, grad_u_dot_n) ==
  [ s \in 1 .. FaceDofNumberOf(g) |->
      [ jface |-> jface, ig_bdry |-> ig_bdry, i_bdry |-> s - 1,
        i_vol |-> LocalFaceVertexIndexOf(g, jface, s - 1),
        amount |-> weight_iqp_bdry(g, jface, ig_bdry) * grad_u_dot_n
                     * phi_u_bdry(s - 1, ig_bdry) ] ]

RECURSIVE AddsOfFace_2d3d(_, _, _, _)
\* if (!is_dirichlet) for (ig_bdry = from; ig_bdry < n_gauss_bdry; ig_bdry++) ...
AddsOfFace_2d3d(g, jface, from, call) ==
  IF call.ret.dirichlet \/ from >= NGaussBdry THEN << >>
  ELSE AddsOfPoint_2d3d(g, jface, from, call.ret.value)
         \o AddsOfFace_2d3d(g, jface, from + 1, call)

\* Res[i_vol] += grad_u_dot_n /* * phi[node] = 1. */;
Amount_1d_Weighted(g, jface, grad_u_dot_n) == weight_iqp_bdry(g, jface, 0) * grad_u_dot_n
Amount_1d(g, jface, grad_u_dot_n) == grad_u_dot_n

\* the += made whatever the predicate answered
AddsOfFace_1d_IgnoreDirichlet(g, jface, call) ==
  [ s \in 1 .. FaceDofNumberOf(g) |->
      [ jface |-> jface, ig_bdry |-> 0, i_bdry |-> s - 1,
        i_vol |-> LocalFaceVertexIndexOf(g, jface, s - 1),
        amount |-> Amount_1d(g, jface, call.ret.value) ] ]

\* if (!is_dirichlet && grad_u_dot_n != 0.) for (i ...) Res[i_vol] += grad_u_dot_n;
AddsOfFace_1d(g, jface, call) ==
  IF call.ret.dirichlet \/ call.ret.value = 0 THEN << >>
  ELSE [ s \in 1 .. FaceDofNumberOf(g) |->
           [ jface |-> jface, ig_bdry |-> 0, i_bdry |-> s - 1,
             i_vol |-> LocalFaceVertexIndexOf(g, jface, s - 1),
             amount |-> Amount_1d(g, jface, call.ret.value) ] ]

RECURSIVE ApplyAdds(_, _, _)
\* the += of adds[from + 1 ..] applied to r
ApplyAdds(r, adds, from) ==
  IF from >= Len(adds) THEN r
  ELSE ApplyAdds(Upd(r, adds[from + 1].i_vol, At(r, adds[from + 1].i_vol)
                                                 + adds[from + 1].amount),
                 adds, from + 1)

\* AssembleProblemDirNeu has just filled Res with zeros and calls the loop of
\* the dimension of the mesh
BdryStart(g, index, which) ==
  [ pc |-> "face", geom |-> g, index |-> index, bdc |-> which, jface |-> 0,
    Res |-> Zeros(CellDofNumberOf(g)), grad_u_dot_n |-> "unset",
    calls |-> << >>, adds |-> << >> ]

\* one turn of for (jface = 0; jface < msh->GetElementFaceNumber(iel); jface++)
N_Face ==
  /\ bdry.pc = "face" /\ bdry.jface < FaceNumberOf(bdry.geom)
  /\ LET calls == CallsOfFace(bdry, bdry.jface)
         adds == IF calls = << >> THEN << >>
                 ELSE IF GeomDim(bdry.geom) = 1
                   THEN AddsOfFace_1d(bdry.geom, bdry.jface, calls[1])
                   ELSE AddsOfFace_2d3d(bdry.geom, bdry.jface, 0, calls[1])
     IN bdry' = [ bdry EXCEPT
                    !.calls = @ \o calls,
                    !.grad_u_dot_n = IF calls = << >> THEN @
                                     ELSE calls[Len(calls)].ret.value,
                    !.adds = @ \o adds,
                    !.Res = ApplyAdds(@, adds, 0),
                    !.jface = @ + 1 ]
  /\ UNCHANGED << assembly_but_bdry, main, mg >>

\* the loop ends and the function returns
N_Return ==
  /\ bdry.pc = "face" /\ bdry.jface >= FaceNumberOf(bdry.geom)
  /\ bdry' = [ bdry EXCEPT !.pc = "returned" ]
  /\ UNCHANGED << assembly_but_bdry, main, mg >>

InitBdry ==
  /\ InitAssembly /\ app = "DirNeu"
  /\ elementOffset = [ q \in 0 .. NProc |-> IF q = 0 THEN 0 ELSE NElem ]
  /\ Sol = SolFromSeed(app, dim, 1)
  /\ main = MainIdle
  /\ \E g \in Geoms : \E index \in FaceIndexTables(g) : \E which \in BdcChoices :
       /\ dim = GeomDim(g)
       /\ bdry = BdryStart(g, index, which)

NextBdry == N_Face \/ N_Return

SpecBdry == InitBdry /\ [][NextBdry]_vars

\* ============================ the boundary predicates the applications attach
\* 0.5 * (1.0 - exp(-10.0 * time)) in units of its value at time 1: zero at
\* time 0, positive afterwards
HalfRamp(time) == IF time = 0 THEN 0 ELSE 1

\* SetBoundaryCondition of the Boussinesq application with the default the
\* other application has
SetBoundaryCondition_Bouss_DefaultFalse(SolName, facename, time) ==
  IF SolName = "T" /\ facename = 1 THEN [ dirichlet |-> TRUE, value |-> HalfRamp(time) ]
  ELSE IF SolName = "T" /\ facename = 2 THEN [ dirichlet |-> TRUE, value |-> -HalfRamp(time) ]
  ELSE [ dirichlet |-> FALSE, value |-> 0 ]

\* SetBoundaryCondition of the Boussinesq application: <<dirichlet, value>>
\* bool dirichlet = true; value = 0.; if (!strcmp(SolName, "T")) {...}
\* else if (!strcmp(SolName, "P")) {...} return dirichlet;
SetBoundaryCondition_Bouss(SolName, facename, time) ==
  IF SolName = "T"
    THEN IF facename = 1 THEN [ dirichlet |-> TRUE, value |-> HalfRamp(time) ]
         ELSE IF facename = 2 THEN [ dirichlet |-> TRUE, value |-> -HalfRamp(time) ]
         ELSE [ dirichlet |-> FALSE, value |-> 0 ]
  ELSE IF SolName = "P" THEN [ dirichlet |-> FALSE, value |-> 0 ]
  ELSE [ dirichlet |-> TRUE, value |-> 0 ]

\* the arguments of a call
BdcNames(a) == IF a = "DirNeu" THEN { "d_s", "T" } ELSE { "T", "U", "V", "W", "P" }
BdcFaceNames == 0 .. 4
BdcTimes == { 0, 1 }

\* the attached predicate is called and returns
BC_Call ==
  /\ bdry.pc = "bc_call"
  /\ bdry' = [ bdry EXCEPT
                 !.pc = "bc_returned",
                 !.ret = IF app = "DirNeu"
                           THEN SetBoundaryCondition_DirNeu(dim, bdry.facename)
                           ELSE SetBoundaryCondition_Bouss(bdry.name, bdry.facename,
                                                           bdry.time) ]
  /\ UNCHANGED << assembly_but_bdry, main, mg >>

InitBdc ==
  /\ InitAssembly
  /\ elementOffset = [ q \in 0 .. NProc |-> IF q = 0 THEN 0 ELSE NElem ]
  /\ Sol = SolFromSeed(app, dim, 1)
  /\ main = MainIdle
  /\ \E n \in BdcNames(app) : \E f \in BdcFaceNames : \E t \in BdcTimes :
       bdry = [ pc |-> "bc_call", name |-> n, facename |-> f, time |-> t,
                ret |-> [ dirichlet |-> FALSE, value |-> 0 ] ]

NextBdc == BC_Call

SpecBdc == InitBdc /\ [][NextBdc]_vars

\* ================= the time loop of main() of the Boussinesq application
NSteps == 10           \* n_timesteps, the number of time steps main asks for
SnapshotEvery == 10    \* if ((time_step + 1) % 10 == 0) vtkIO.Write(...)
dt == 2                \* double dt = 0.2, in tenths

\* main at vtkIO.Write(..., 0): the solver is configured (SetMgType(F_CYCLE))
\* iterations: the nonlinear iterations a solve of this run takes, at most the
\* cap; converged: how the latest solve ended; mgsolves, norms: the multigrid
\* solves of the solve in progress and what each residual test found
TimeStart(seed, probe, iterations) ==
  [ pc |-> "vtk0", mgType |-> "F_CYCLE", time_step |-> 0,
    snapshots |-> << >>, outfile |-> << >>, outfile1 |-> << >>, outfile2 |-> << >>,
    corrected |-> 0, seed |-> seed, probe |-> probe, iterations |-> iterations,
    converged |-> "none", solves |-> << >>, log |-> << >>,
    mgsolves |-> 0, norms |-> << >> ]

Logged(m, op) == [ m EXCEPT !.log = Append(@, [ op |-> op, step |-> m.time_step ]) ]

\* VTKWriter vtkIO(&mlSol); vtkIO.Write(DEFAULT_OUTPUTDIR, ..., 0); dt; the streams
T_WriteInitial ==
  /\ main.pc = "vtk0"
  /\ main' = [ Logged(main, "Write") EXCEPT !.snapshots = Append(@, 0), !.pc = "loop" ]
  /\ UNCHANGED assembly

\* time_step < n_timesteps
LoopContinues_OneShort(time_step) == time_step + 1 < NSteps
LoopContinues(time_step) == time_step < NSteps

\* if (time_step > 0) system.SetMgType(V_CYCLE);
MgTypeForStep_Late(time_step, cur) == IF time_step > 1 THEN "V_CYCLE" ELSE cur
MgTypeForStep(time_step, cur) == IF time_step > 0 THEN "V_CYCLE" ELSE cur

\* for (time_step ...) { if (time_step > 0) SetMgType(V_CYCLE); system.MGsolve();
\* or, after the last step: mlMsh.PrintInfo(); outfile.close(); ...; return 0;
T_LoopTest ==
  /\ main.pc = "loop"
  /\ IF LoopContinues(main.time_step)
       THEN /\ main' = [ Logged(main, "MGsolve") EXCEPT
                           !.mgType = MgTypeForStep(main.time_step, @),
                           !.solves = Append(@, [ step |-> main.time_step,
                                                  mgType |-> MgTypeForStep(
                                                    main.time_step, main.mgType) ]),
                           !.corrected = 0,
                           !.converged = "none",
                           !.mgsolves = 0,
                           !.norms = << >>,
                           !.pc = "MGsolve" ]
            /\ pass' = 0
       ELSE /\ main' = [ main EXCEPT !.pc = "done" ]
            /\ pass' = pass
  /\ UNCHANGED << mesh, diagv, prev, bdry, mg, assembleMatrix, pc, iel, locals, backend,
                  stack, hist >>

\* MGsolve: a nonlinear iteration asks every process for an assembly pass; main
\* leaves the residual-only updates switched off, so each pass assembles the matrix
T_Assemble ==
  /\ main.pc = "MGsolve" /\ pass = main.corrected
  /\ BeginPass(TRUE)

\* the statement main reaches when MGsolve returns; its result is not looked at
AfterMGsolve_OnAcceptance(converged) == IF converged THEN "copy" ELSE "diag"
AfterMGsolve(converged) == "copy"

\* the correction of a nonlinear iteration applied to the current solution
Corrected(seed) == (seed + 1) % 3

\* the test that ends the nonlinear iteration: the residual norm is below the
\* tolerance (SetNonLinearConvergenceTolerance), or the iteration just made was
\* the last one allowed (SetMaxNumberOfNonLinearIterations)
NonLinearStops_NoCap(below, iteration) == below
NonLinearStops(below, iteration) == below \/ iteration >= MaxPass

\* MGsolve: the pass is over on every process, the linearized system is solved
\* and the correction applied; the iteration goes on, or MGsolve returns,
\* converged or with the iteration cap hit
T_Correct(converged) ==
  /\ main.pc = "MGsolve" /\ pass = main.corrected + 1
  /\ \A p \in Procs : pc[p] = "idle"
  /\ converged = FALSE => pass < main.iterations \/ pass = MaxPass
  /\ converged = TRUE => pass = main.iterations
  /\ Sol' = SolFromSeed(app, dim, Corrected(main.seed))
  /\ LET m == [ main EXCEPT !.seed = Corrected(@), !.corrected = @ + 1,
                             !.mgsolves = @ + 1, !.norms = Append(@, converged) ]
     IN IF NonLinearStops(converged, pass)
          THEN main' = [ Logged(m, "MGsolve returns") EXCEPT
                           !.converged = converged,
                           !.pc = AfterMGsolve(converged) ]
          ELSE main' = m
  /\ UNCHANGED << app, dim, elementOffset, owner, SolOld, diagv, prev, bdry, mg, pass,
                  assembleMatrix, pc, iel, locals, backend, stack, hist >>

\* system.CopySolutionToOldSolution();
T_Copy ==
  /\ main.pc = "copy"
  /\ SolOld' = Sol
  /\ main' = [ Logged(main, "CopySolutionToOldSolution") EXCEPT !.pc = "diag" ]
  /\ UNCHANGED << app, dim, elementOffset, owner, Sol, diagv, prev, bdry, mg, pass,
                  assembleMatrix, pc, iel, locals, backend, stack, hist >>

\* out_value = GetKineandPointVlaue(&mlSol);
T_GetKine ==
  /\ main.pc = "diag"
  /\ DiagEntry(main.probe)
  /\ main' = [ Logged(main, "GetKineandPointVlaue") EXCEPT !.pc = "write" ]

\* (time_step + 1) * dt
RowTime_StepStart(time_step) == time_step * dt
RowTime(time_step) == (time_step + 1) * dt

\* (time_step + 1) % 10 == 0
SnapshotDue_StepStart(time_step) == time_step % SnapshotEvery = 0
SnapshotDue(time_step) == (time_step + 1) % SnapshotEvery = 0

\* GetKineandPointVlaue has returned on every process;
\* outfile << (time_step + 1) * dt << "  " << sqrt(kineticEnergy / 2.0 / 4.0); the
\* same for ptCoord[0], ptCoord[1]; if (...) vtkIO.Write(..., time_step + 1); time_step++
\* (the value columns hold kineticEnergy and the probe values as returned)
T_EndOfStep ==
  /\ main.pc = "write"
  /\ \A p \in Procs : pc[p] = "idle" /\ diag[p].done
  /\ LET t == RowTime(main.time_step)
         m1 == [ Logged(main, "rows") EXCEPT
                   !.outfile = Append(@, << t, diag[0].kineticEnergy >>),
                   !.outfile1 = Append(@, << t, diag[0].ptUCoord >>),
                   !.outfile2 = Append(@, << t, diag[0].ptVCoord >>) ]
         m2 == IF SnapshotDue(main.time_step)
                 THEN [ Logged(m1, "Write") EXCEPT
                          !.snapshots = Append(@, main.time_step + 1) ]
                 ELSE m1
     IN main' = [ m2 EXCEPT !.time_step = @ + 1, !.pc = "loop" ]
  /\ UNCHANGED assembly

\* the mesh main reads has the probe point on the node the first two cells share
ProbeInMesh == CHOOSE n \in ProbeChoices : n # NoNode /\ n <= NElem

InitTime ==
  /\ InitAssembly
  /\ app = "Bouss" /\ dim = 2
  /\ bdry = BdryIdle
  /\ Sol = SolFromSeed(app, dim, 1) /\ SolOld = SolFromSeed(app, dim, 0)
  /\ \E k \in 1 .. MaxPass : main = TimeStart(1, ProbeInMesh, k)

NextTime ==
  \/ T_WriteInitial
  \/ T_LoopTest
  \/ T_Assemble
  \/ \E converged \in BOOLEAN : T_Correct(converged)
  \/ T_Copy
  \/ T_GetKine
  \/ T_EndOfStep
  \/ \E p \in Procs :
       \/ B_Start(p) \/ B_Element(p) \/ B_Scatter(p) \/ B_Declare(p) \/ B_Jacobian(p)
       \/ B_CloseRES(p) \/ B_CloseKK(p) \/ B_Return(p)
       \/ G_Kinetic(p) \/ G_PointU(p) \/ G_PointV(p) \/ G_Return(p)

SpecTime == InitTime /\ [][NextTime]_vars

\* ================== GetKineandPointVlaue on its own, any velocity at the probe
\* velocities the probe point may carry, in units of 1.0e-6: zero, within the
\* tolerance of the selection, and beyond it, of either sign
ProbeValues == { 0 - 2, 0 - 1, 0, 1, 2 }
\* a solution whose U and V are u and v at the nodes of ProbeChoices and beyond
\* the tolerance everywhere else
ProbeSol(u, v) ==
  LET base == SolFromSeed("Bouss", 2, 1)
  IN [ base EXCEPT
         !["U"] = [ n \in DOMAIN @ |-> IF n \in ProbeChoices THEN u ELSE 3 + @[n] ],
         !["V"] = [ n \in DOMAIN @ |-> IF n \in ProbeChoices THEN v ELSE 0 - (3 + @[n]) ] ]

\* every process calls GetKineandPointVlaue(&mlSol)
K_Call(n) ==
  /\ main.pc = "none"
  /\ \A p \in Procs : ~diag[p].done
  /\ DiagEntry(n)
  /\ UNCHANGED main

InitDiag ==
  /\ InitSystem
  /\ app = "Bouss" /\ dim = 2
  /\ \E u \in ProbeValues, v \in ProbeValues : Sol = ProbeSol(u, v)
  /\ SolOld = SolFromSeed(app, dim, 0)
  /\ main = MainIdle
  /\ bdry = BdryIdle

NextDiag ==
  \/ \E n \in ProbeChoices : K_Call(n)
  \/ \E p \in Procs : G_Kinetic(p) \/ G_PointU(p) \/ G_PointV(p) \/ G_Return(p)

SpecDiag == InitDiag /\ [][NextDiag]_vars

\* ============================================== the multigrid cycle
MaxLevels == 3     \* the finest hierarchy followed ("nlevels", numberOfUniformLevels)
\* SetNumberPreSmoothingStep / SetNumberPostSmoothingStep, "npresmoothing" /
\* "npostsmoothing": the settings in use are 2 and 2, and 0 and 2
SmoothingChoices == { 0, 2 }
MgTypes == { "V_CYCLE", "F_CYCLE" }

MgEv(op, level) == [ op |-> op, level |-> level ]
\* a cycle entered at a level; the coarsest level is solved directly
VFrame(level) ==
  [ cycle |-> "V", level |-> level, count |-> 0,
    at |-> IF level = 0 THEN "Coarsest" ELSE "Presmoothing" ]
FFrame(level) ==
  [ cycle |-> "F", level |-> level, count |-> 0,
    at |-> IF level = 0 THEN "Coarsest" ELSE "CoarseRecursion" ]
MgTop == mg.stack[Len(mg.stack)]
MgCycling == mg.pc = "Cycling" /\ mg.stack # << >>
\* the top frame becomes f, and then g is entered
MgSetTop(f) == [ mg.stack EXCEPT ![Len(mg.stack)] = f ]
MgEnter(g) == MgEv(g.cycle \o " begin", g.level)

\* the presmoothing / postsmoothing loop of a level has made all its applications
SmoothingDone_AtLeastOnce(count, n) == count >= n /\ count >= 1
SmoothingDone(count, n) == count >= n
SmoothingSteps(f) == IF f.at = "Presmoothing" THEN mg.nPre ELSE mg.nPost

\* MGsolve starts a cycle of the configured type at the finest level
MG_Call ==
  /\ mg.pc = "Idle"
  /\ \E nPre \in SmoothingChoices, nPost \in SmoothingChoices,
        levels \in 1 .. MaxLevels, mgType \in MgTypes :
       LET f == IF mgType = "V_CYCLE" THEN VFrame(levels - 1) ELSE FFrame(levels - 1)
       IN mg' = [ pc |-> "Cycling", nPre |-> nPre, nPost |-> nPost, levels |-> levels,
                  mgType |-> mgType, stack |-> << f >>, trace |-> << MgEnter(f) >> ]
  /\ UNCHANGED << assembly_but_bdry, main, bdry >>

\* one application of the smoother, before the restriction or after the prolongation
MG_Smooth ==
  /\ MgCycling
  /\ MgTop.cycle = "V" /\ MgTop.at \in { "Presmoothing", "Postsmoothing" }
  /\ ~SmoothingDone(MgTop.count, SmoothingSteps(MgTop))
  /\ mg' = [ mg EXCEPT !.stack = MgSetTop([ MgTop EXCEPT !.count = @ + 1 ]),
                       !.trace = Append(@, MgEv(MgTop.at, MgTop.level)) ]
  /\ UNCHANGED << assembly_but_bdry, main, bdry >>

\* the residual is restricted to the next coarser level and the cycle recurses
MG_Restrict ==
  /\ MgCycling
  /\ MgTop.cycle = "V" /\ MgTop.at = "Presmoothing"
  /\ SmoothingDone(MgTop.count, mg.nPre)
  /\ LET g == VFrame(MgTop.level - 1)
     IN mg' = [ mg EXCEPT
                  !.stack = Append(MgSetTop([ MgTop EXCEPT !.at = "Prolongation" ]), g),
                  !.trace = @ \o << MgEv("Restriction", MgTop.level), MgEnter(g) >> ]
  /\ UNCHANGED << assembly_but_bdry, main, bdry >>

\* the coarsest level is solved directly
MG_CoarseSolve ==
  /\ MgCycling
  /\ MgTop.at = "Coarsest"
  /\ mg' = [ mg EXCEPT !.stack = MgSetTop([ MgTop EXCEPT !.at = "End" ]),
                       !.trace = Append(@, MgEv("CoarseSolve", MgTop.level)) ]
  /\ UNCHANGED << assembly_but_bdry, main, bdry >>

\* the coarse correction is prolonged and added; postsmoothing starts
MG_Prolong ==
  /\ MgCycling
  /\ MgTop.cycle = "V" /\ MgTop.at = "Prolongation"
  /\ mg' = [ mg EXCEPT
               !.stack = MgSetTop([ MgTop EXCEPT !.at = "Postsmoothing", !.count = 0 ]),
               !.trace = Append(@, MgEv("Prolongation", MgTop.level)) ]
  /\ UNCHANGED << assembly_but_bdry, main, bdry >>

\* F-cycle at a level: a full F-cycle on the coarser level, then a V-cycle here
MG_FCycle ==
  /\ MgCycling
  /\ MgTop.cycle = "F" /\ MgTop.at \in { "CoarseRecursion", "FineV" }
  /\ LET g == IF MgTop.at = "CoarseRecursion" THEN FFrame(MgTop.level - 1)
              ELSE VFrame(MgTop.level)
         next == IF MgTop.at = "CoarseRecursion" THEN "FineV" ELSE "End"
     IN mg' = [ mg EXCEPT
                  !.stack = Append(MgSetTop([ MgTop EXCEPT !.at = next ]), g),
                  !.trace = Append(@, MgEnter(g)) ]
  /\ UNCHANGED << assembly_but_bdry, main, bdry >>

\* the cycle of a level is over
MG_Return ==
  /\ MgCycling
  /\ \/ MgTop.at = "End"
     \/ MgTop.at = "Postsmoothing" /\ SmoothingDone(MgTop.count, mg.nPost)
  /\ mg' = [ mg EXCEPT
               !.stack = SubSeq(@, 1, Len(@) - 1),
               !.trace = Append(@, MgEv(MgTop.cycle \o " end", MgTop.level)),
               !.pc = IF Len(mg.stack) = 1 THEN "Done" ELSE @ ]
  /\ UNCHANGED << assembly_but_bdry, main, bdry >>

InitMG ==
  /\ InitAssembly
  /\ app = "Bouss" /\ dim = 2
  /\ elementOffset = [ q \in 0 .. NProc |-> IF q = 0 THEN 0 ELSE NElem ]
  /\ Sol = SolFromSeed(app, dim, 1)
  /\ main = MainIdle
  /\ bdry = BdryIdle

NextMG ==
  \/ MG_Call \/ MG_Smooth \/ MG_Restrict \/ MG_CoarseSolve \/ MG_Prolong
  \/ MG_FCycle \/ MG_Return

SpecMG == InitMG /\ [][NextMG]_vars

\* ======================================================== properties
AssemblyPcs == { "start", "elem", "quad", "scatter", "declare", "jacobian",
                 "inCloseRES", "inCloseKK" }
LoopPcs == { "elem", "quad", "scatter", "declare", "jacobian" }

\* p has run the opening statements of the latest pass
Started(p) == pass >= 1 /\ pc[p] # "start"
\* p has returned from the latest pass
Finished(p) == pass >= 1 /\ pc[p] \notin AssemblyPcs
AllFinished == \A p \in Procs : Finished(p)

\* the elements of the range [_elementOffset[p], _elementOffset[p + 1])
OwnElems(p) == { e \in Elems : elementOffset[p] <= e /\ e < elementOffset[p + 1] }

\* the local residual of element e and its global indices, as one pass
\* computes them from the current solution
LocalRes(e) ==
  IF app = "DirNeu"
    THEN VolumeRes_DirNeu(neumann_loop(Zeros(nDof_u(e)), dim, e, 0), e)
    ELSE FillRes(<< >>, GaussLoop_Bouss(Sol, SolOld, aResZero(e, dim), e, dim, 0),
                 e, dim)
LocalMap(e) ==
  IF app = "DirNeu" THEN l2GMap_AllVars(e) ELSE FillSysDof(<< >>, e, dim)

\* per global dof, the sum of the local residuals over the elements touching it
ExpectedRES ==
  LET r == [ e \in Elems |-> LocalRes(e) ]
      m == [ e \in Elems |-> LocalMap(e) ]
  IN [ d \in DofSet |->
         SumTo(NElem, [ e \in Elems |-> Contribution(r[e], m[e], d) ]) ]

\* how often element e was scattered into the residual, all processes together
TimesAssembled(e) == SumTo(NProc, [ p \in Procs |-> hist[p].resAdds[e] ])

\* ---- C1: every assembler zeroes the residual at the start of a pass, and the
\* matrix as well when matrix assembly is enabled, so that the residual after
\* the pass holds the contributions of that pass only.
C1_ZeroedAtStart ==
  /\ \A p \in Procs :
       Started(p) => /\ hist[p].zeroRES = 1
                     /\ assembleMatrix => hist[p].zeroKK = 1
  /\ AllFinished => RES = ExpectedRES

\* ---- C2: the residual is closed exactly once per pass, after the last owned
\* element's scatter-add and never before one; the matrix is closed exactly
\* once, after its last scatter-add, if and only if matrix assembly is enabled.
C2_ClosedOnce ==
  \A p \in Procs :
    /\ hist[p].closeRES <= 1 /\ hist[p].closeKK <= 1
    /\ ~hist[p].addAfterClose
    /\ (pc[p] \in LoopPcs \cup {"start"}) =>
          hist[p].closeRES = 0 /\ hist[p].closeKK = 0
    /\ hist[p].closeRES = 1 => \A e \in OwnElems(p) : hist[p].resAdds[e] = 1
    /\ hist[p].closeKK = 1 =>
          /\ assembleMatrix /\ hist[p].closeRES = 1
          /\ \A e \in OwnElems(p) : hist[p].kkAdds[e] = 1
    /\ Finished(p) =>
          /\ hist[p].closeRES = 1
          /\ hist[p].closeKK = (IF assembleMatrix THEN 1 ELSE 0)

C2_Witness ==
  \E p \in Procs :
    /\ Finished(p) /\ assembleMatrix /\ OwnElems(p) # {}
    /\ hist[p].closeRES = 1 /\ hist[p].closeKK = 1

\* ---- C3: in a pass every element is assembled exactly once, by the one
\* process that owns it, and after close() every entry of the residual is the
\* sum of the local residuals of the elements touching that dof.
C3_EachElementOnce ==
  AllFinished =>
    /\ \A e \in Elems :
         TimesAssembled(e) = 1 /\ hist[ElemOwner(e)].resAdds[e] = 1
    /\ RES = ExpectedRES

\* ---- C4: a pass with matrix assembly disabled followed by a pass with it
\* enabled, on the same solution, leaves the same residual.
C4_SameResidual ==
  (AllFinished /\ pass >= 2 /\ ~prev.assembleMatrix /\ assembleMatrix)
    => RES = prev.RES

\* ---- C5: close() is a barrier: a process that has returned from the close of
\* the residual (of the matrix) finds that every process has called it, that
\* every element has been scattered and that nothing is still kept aside.
C5_CloseIsBarrier ==
  \A p \in Procs :
    /\ hist[p].retRES = 1 =>
         /\ \A q \in Procs : hist[q].closeRES = 1 /\ stashRES[q] = ZeroVec
         /\ \A e \in Elems : TimesAssembled(e) = 1
    /\ hist[p].retKK = 1 =>
         \A q \in Procs : hist[q].closeKK = 1 /\ stashKK[q] = ZeroVec

C5_Witness ==
  \E p, q \in Procs :
    /\ p # q /\ OwnElems(p) # {} /\ OwnElems(q) # {}
    /\ hist[p].retRES = 1 /\ pc[q] = "inCloseRES"

\* ---- C6: a process scatters only the elements of its own range and sets
\* only its own slot of the reduction vectors; an entry of a distributed
\* vector changes only by a step of its owner or when a close() completes.
CloseCompletes(obj) == released'[obj] = Procs /\ released[obj] # Procs

C6_OwnEntriesOnly ==
  [][ /\ \A p \in Procs :
           /\ \A e \in Elems :
                (hist'[p].resAdds[e] > 0 \/ hist'[p].kkAdds[e] > 0)
                   => e \in OwnElems(p)
           /\ diag'[p].set \subseteq {p}
      /\ \A d \in DofSet :
           /\ RES'[d] # RES[d] =>
                pc'[DofOwner(d)] # pc[DofOwner(d)] \/ CloseCompletes("RES")
           /\ KK'[d] # KK[d] =>
                pc'[DofOwner(d)] # pc[DofOwner(d)] \/ CloseCompletes("KK")
      /\ \A q \in Procs :
           out_vec'[q] # out_vec[q] => pc'[q] # pc[q] \/ CloseCompletes("OUT")
    ]_vars

C6_Witness ==
  \E p \in Procs :
    /\ p > 0 /\ diag[p].set = {p}
    /\ \E e \in OwnElems(p) : hist[p].resAdds[e] = 1
    /\ \E d \in DofSet : DofOwner(d) # p /\ RES[d] # 0

\* ---- C7: in a matrix-enabled pass of the Boussinesq assembler a recording is
\* opened once per element before its Gauss loop, holds that element only,
\* is consumed by exactly one Jacobian extraction and never overlaps another.
C7_OneRecordingPerElement ==
  \A p \in Procs :
    (app = "Bouss" /\ assembleMatrix /\ pc[p] \in LoopPcs) =>
      /\ ~hist[p].overlap /\ Cardinality(hist[p].open) <= 1
      /\ \A e \in Elems :
           /\ hist[p].newRec[e] <= 1 /\ hist[p].jacobian[e] <= hist[p].newRec[e]
           /\ e \notin OwnElems(p) => hist[p].newRec[e] = 0
      /\ pc[p] \in {"scatter", "declare", "jacobian"} =>
           /\ stack[p].ops = {iel[p]}
           /\ hist[p].open = {iel[p]}
           /\ hist[p].newRec[iel[p]] = 1 /\ hist[p].jacobian[iel[p]] = 0
      /\ pc[p] = "elem" =>
           /\ hist[p].open = {}
           /\ \A e \in OwnElems(p) :
                /\ hist[p].newRec[e] = (IF e < iel[p] THEN 1 ELSE 0)
                /\ hist[p].jacobian[e] = hist[p].newRec[e]
           /\ iel[p] > elementOffset[p] => Jac[p].tape = {iel[p] - 1}

C7_Witness ==
  \E p \in Procs :
    /\ app = "Bouss" /\ assembleMatrix /\ pc[p] = "elem"
    /\ Cardinality(OwnElems(p)) >= 2 /\ iel[p] = elementOffset[p + 1]
    /\ \A e \in OwnElems(p) : hist[p].jacobian[e] = 1

\* ---- C8: in a residual-only pass of the Boussinesq assembler the recording
\* is paused and no recording is opened, nothing is declared dependent or
\* independent and no Jacobian is extracted; in a matrix-enabled pass, also
\* one that follows a residual-only pass, the recording is on again.
C8_PausedWithoutMatrix ==
  \A p \in Procs :
    (app = "Bouss" /\ Started(p)) =>
      /\ ~assembleMatrix =>
           /\ stack[p].paused
           /\ hist[p].adCalls = 0
           /\ \A e \in Elems : hist[p].newRec[e] = 0 /\ hist[p].jacobian[e] = 0
           /\ stack[p].deps = << >> /\ stack[p].indeps = << >>
           /\ pass = 1 => stack[p].ops = {}
      /\ assembleMatrix => ~stack[p].paused

C8_Witness ==
  \E p \in Procs :
    /\ app = "Bouss" /\ pass >= 2 /\ assembleMatrix
    /\ prev.n >= 1 /\ ~prev.assembleMatrix
    /\ pc[p] = "scatter" /\ stack[p].ops = {iel[p]}

\* ---- C9: the dependents and the independents are declared in the order of
\* the local layout of sysDof and Res: temperature, then the velocity
\* components in order, then pressure.
Layout(e, d) ==
  Block("T", nDofsT(e)) \o Block("U", nDofsV(e)) \o Block("V", nDofsV(e))
    \o (IF d = 3 THEN Block("W", nDofsV(e)) ELSE << >>) \o Block("P", nDofsP(e))

C9_DeclarationOrder ==
  \A p \in Procs :
    /\ (app = "Bouss" /\ pc[p] = "jacobian") =>
         LET e == iel[p]
             n == nDofsTVP(e, dim)
         IN /\ Len(stack[p].deps) = n /\ Len(stack[p].indeps) = n
            /\ Len(sysDof[p]) = n /\ Len(Res[p]) = n
            /\ stack[p].deps = Layout(e, dim)
            /\ stack[p].indeps = Layout(e, dim)
            /\ \A r \in 1 .. n :
                 /\ TagDof(stack[p].deps[r], e) = sysDof[p][r]
                 /\ TagDof(stack[p].indeps[r], e) = sysDof[p][r]
                 /\ Res[p][r] = 0 - TagRes(aRes[p], stack[p].deps[r])
    /\ (app = "Bouss" /\ assembleMatrix /\ pc[p] = "elem"
          /\ iel[p] > elementOffset[p]) =>
         /\ Jac[p].rows = Jac[p].cols
         /\ Len(Jac[p].rows) = Len(sysDof[p])
         /\ \A r \in 1 .. Len(sysDof[p]) :
              TagDof(Jac[p].rows[r], iel[p] - 1) = sysDof[p][r]

C9_Witness ==
  \E p \in Procs :
    /\ app = "Bouss" /\ dim = 3 /\ pc[p] = "elem" /\ assembleMatrix
    /\ iel[p] > elementOffset[p] /\ Len(Jac[p].rows) = nDofsTVP(iel[p] - 1, dim)

\* ---- C10: the leaves of the field-split tree, the Navier-Stokes block and
\* the temperature block, are pairwise disjoint and together hold every
\* unknown of the system, in dimension 2 and in dimension 3.
RECURSIVE LeavesOf(_)
LeavesOf(t) ==
  IF t.children = << >> THEN << t >>
  ELSE LET sub[i \in 0 .. Len(t.children)] ==
             IF i = 0 THEN << >> ELSE sub[i - 1] \o LeavesOf(t.children[i])
       IN sub[Len(t.children)]

C10_LeavesPartitionUnknowns ==
  main.pc \in {"solver", "ready"} =>
    LET leaves == LeavesOf(main.FS_NST)
    IN /\ \A i, j \in DOMAIN leaves :
            i # j => Range(leaves[i].fields) \cap Range(leaves[j].fields) = {}
       /\ UNION { Range(leaves[i].fields) : i \in DOMAIN leaves }
            = 0 .. (Len(main.solPde) - 1)

\* ------------------------------------------- the boundary loops, observed
InBdryLoop == bdry.pc \in { "face", "returned" }
BdryFaces == 0 .. (FaceNumberOf(bdry.geom) - 1)
\* the faces whose turn of the loop is over
FacesDone == { j \in BdryFaces : j < bdry.jface }
CallsFor(j) == { k \in DOMAIN bdry.calls : bdry.calls[k].jface = j }
AddsFor(j) == { k \in DOMAIN bdry.adds : bdry.adds[k].jface = j }
OnBoundary(j) == bdry.index[j + 1] < 0
\* n times the centroid of face j is the sum of the coordinates of its n nodes
IsCentroid(x, j) ==
  LET n == FaceDofNumberOf(bdry.geom)
  IN \A k \in 1 .. 3 :
       n * x[k] = SumTo(n, [ i \in 0 .. (n - 1) |->
                              VertexCoord(bdry.geom,
                                LocalFaceVertexIndexOf(bdry.geom, j, i))[k] ])

\* ---- C11: in both boundary loops the predicate is invoked exactly once for
\* each face with a negative neighbour index, with the centroid of the face as
\* coordinate, and never for a face with a non-negative neighbour index; the
\* one invocation serves every quadrature point of the face.
C11_OncePerBoundaryFace ==
  InBdryLoop =>
    \A j \in BdryFaces :
      /\ j \notin FacesDone => CallsFor(j) = {} /\ AddsFor(j) = {}
      /\ j \in FacesDone /\ ~OnBoundary(j) => CallsFor(j) = {}
      /\ j \in FacesDone /\ OnBoundary(j) =>
           /\ Cardinality(CallsFor(j)) = 1
           /\ \A k \in CallsFor(j) :
                /\ IsCentroid(bdry.calls[k].x, j)
                /\ bdry.calls[k].name = "d_s"
                /\ \A a \in AddsFor(j) :
                     \E w \in 1 .. (NGaussBdry * FaceNumberOf(bdry.geom)) :
                       bdry.adds[a].amount
                         = w * bdry.calls[k].ret.value
                             * phi_u_bdry(bdry.adds[a].i_bdry, bdry.adds[a].ig_bdry)

C11_Witness ==
  /\ bdry.pc = "returned" /\ bdry.geom = "quad"
  /\ \E j \in BdryFaces : ~OnBoundary(j)
  /\ \E j \in BdryFaces :
       /\ OnBoundary(j)
       /\ \E a, b \in AddsFor(j) :
            /\ bdry.adds[a].ig_bdry # bdry.adds[b].ig_bdry
            /\ bdry.adds[a].amount # 0

\* ---- C12: a neighbour index b < 0 marks a boundary face and the group id
\* passed to the predicate is -(b + 1), non-negative and distinct for distinct
\* b; a face with b >= 0 gets no group id and no predicate call.
C12_GroupFromIndex ==
  InBdryLoop =>
    /\ \A k \in DOMAIN bdry.calls :
         LET b == bdry.index[bdry.calls[k].jface + 1]
         IN /\ b < 0
            /\ bdry.calls[k].face = -(b + 1)
            /\ bdry.calls[k].face >= 0
    /\ \A k, l \in DOMAIN bdry.calls :
         bdry.index[bdry.calls[k].jface + 1] # bdry.index[bdry.calls[l].jface + 1]
           => bdry.calls[k].face # bdry.calls[l].face
    /\ \A j \in FacesDone : bdry.index[j + 1] >= 0 => CallsFor(j) = {}

C12_Witness ==
  /\ bdry.pc = "returned"
  /\ \E k, l \in DOMAIN bdry.calls :
       bdry.calls[k].face = 0 /\ bdry.calls[l].face = 3
  /\ \E j \in BdryFaces : bdry.index[j + 1] = 0

\* the += made for face j are exactly one per quadrature point and face-local
\* test function, each of weight * detJac * datum * phi_bdry
ExpectedAdds_2d3d(j, datum) ==
  { [ jface |-> j, ig_bdry |-> ig, i_bdry |-> i,
      i_vol |-> LocalFaceVertexIndexOf(bdry.geom, j, i),
      amount |-> GaussWeightBdry(ig) * detJac_iqp_bdry(bdry.geom, j, ig) * datum
                   * phi_u_bdry(i, ig) ] :
      ig \in 0 .. (NGaussBdry - 1), i \in 0 .. (FaceDofNumberOf(bdry.geom) - 1) }
\* the residual slot v holds the sum of what was added to it
SlotIsSumOfAdds(v) ==
  At(bdry.Res, v)
    = SumTo(Len(bdry.adds),
            [ k \in 0 .. (Len(bdry.adds) - 1) |->
                IF bdry.adds[k + 1].i_vol = v THEN bdry.adds[k + 1].amount ELSE 0 ])

\* ---- C13: in neumann_loop_2d3d, for a boundary face whose predicate returns
\* isDirichlet = false, every face quadrature point adds weight * detJac *
\* datum * phi_bdry[i_bdry] to the slot of every face-local test function;
\* for a face whose predicate returns isDirichlet = true nothing is added.
C13_WeakNeumannTerm ==
  InBdryLoop /\ GeomDim(bdry.geom) \in {2, 3} =>
    /\ \A j \in FacesDone : \A k \in CallsFor(j) :
         /\ bdry.calls[k].ret.dirichlet => AddsFor(j) = {}
         /\ ~bdry.calls[k].ret.dirichlet =>
              /\ { bdry.adds[a] : a \in AddsFor(j) }
                   = ExpectedAdds_2d3d(j, bdry.calls[k].ret.value)
              /\ Cardinality(AddsFor(j)) = NGaussBdry * FaceDofNumberOf(bdry.geom)
    /\ \A v \in 0 .. (CellDofNumberOf(bdry.geom) - 1) : SlotIsSumOfAdds(v)

C13_Witness ==
  /\ bdry.pc = "returned" /\ GeomDim(bdry.geom) \in {2, 3}
  /\ \E k, l \in DOMAIN bdry.calls :
       /\ bdry.calls[k].ret.dirichlet
       /\ ~bdry.calls[l].ret.dirichlet /\ bdry.calls[l].ret.value # 0
  /\ \E v \in 1 .. Len(bdry.Res) : bdry.Res[v] # 0

\* ---- C14: in neumann_loop_1d, for a boundary face whose predicate returns
\* isDirichlet = false the slot of the face's test function is increased by
\* exactly the datum, zero included; nothing else changes the residual.
C14_PointFaceAddsDatum ==
  InBdryLoop /\ GeomDim(bdry.geom) = 1 =>
    \A j \in BdryFaces :
      At(bdry.Res, LocalFaceVertexIndexOf(bdry.geom, j, 0))
        = IF j \in FacesDone /\ OnBoundary(j)
               /\ \E k \in CallsFor(j) : ~bdry.calls[k].ret.dirichlet
            THEN bdry.calls[CHOOSE k \in CallsFor(j) : TRUE].ret.value
            ELSE 0

C14_Witness ==
  /\ bdry.pc = "returned" /\ GeomDim(bdry.geom) = 1
  /\ \E k, l \in DOMAIN bdry.calls :
       /\ ~bdry.calls[k].ret.dirichlet /\ bdry.calls[k].ret.value = 0
       /\ ~bdry.calls[l].ret.dirichlet /\ bdry.calls[l].ret.value # 0
            /\ bdry.calls[l].jface = 1

\* ------------------------------------------ the boundary predicates, observed
\* a branch of the predicate of application a names the combination
HandledByBranch(a, d, name, facename) ==
  IF a = "DirNeu" THEN d = 2 /\ facename \in {1, 2, 3}
  ELSE name \in { "T", "P" }
Unhandled ==
  bdry.pc = "bc_returned" /\ ~HandledByBranch(app, dim, bdry.name, bdry.facename)

\* ---- C15 as stated: for each shipped predicate, every combination of field
\* name and boundary group that no branch handles returns isDirichlet = false.
C15_UnhandledIsNotDirichlet ==
  Unhandled => bdry.ret.dirichlet = FALSE

\* ---- C15 amended: the predicate of shaflynn.cpp returns isDirichlet = false
\* for every combination no branch handles; the predicate of the Boussinesq
\* application returns isDirichlet = true with value 0 for every combination no
\* branch handles (the fields other than T and P), and returns false only
\* from a branch (T on a group other than 1 and 2, P on every group).
C15_DefaultOfEachPredicate ==
  /\ Unhandled /\ app = "DirNeu" => bdry.ret = [ dirichlet |-> FALSE, value |-> 0 ]
  /\ Unhandled /\ app = "Bouss" => bdry.ret = [ dirichlet |-> TRUE, value |-> 0 ]
  /\ bdry.pc = "bc_returned" /\ app = "Bouss" /\ ~bdry.ret.dirichlet =>
       \/ bdry.name = "T" /\ bdry.facename \notin {1, 2}
       \/ bdry.name = "P"

C15_Witness ==
  /\ bdry.pc = "bc_returned" /\ app = "Bouss"
  /\ bdry.name = "U" /\ bdry.facename = 3
  /\ bdry.ret.dirichlet

\* ------------------------------------------------ the time loop, observed
InTimeLoop == main.pc \in { "vtk0", "loop", "MGsolve", "copy", "diag", "write", "done" }
Ev(op, step) == [ op |-> op, step |-> step ]
\* the positions of the log that hold op
LogPositions(op) == { q \in DOMAIN main.log : main.log[q].op = op }
\* what main does in one time step, whatever its solve returns
OpsOfStep(i) ==
  << Ev("MGsolve", i), Ev("MGsolve returns", i), Ev("CopySolutionToOldSolution", i),
     Ev("GetKineandPointVlaue", i), Ev("rows", i) >>
    \o (IF (i + 1) % 10 = 0 THEN << Ev("Write", i) >> ELSE << >>)
RECURSIVE OpsOfSteps(_)
OpsOfSteps(k) == IF k = 0 THEN << >> ELSE OpsOfSteps(k - 1) \o OpsOfStep(k - 1)
\* what main does from vtkIO.Write(..., 0) to the end of the last step, and how
\* much of it lies before step k
WholeLog == << Ev("Write", 0) >> \o OpsOfSteps(NSteps)
OpsBefore == [ k \in 0 .. NSteps |-> 1 + Len(OpsOfSteps(k)) ]
\* how many statements of the step in progress are behind main
OpsBehind ==
  CASE main.pc = "MGsolve" -> 1
    [] main.pc = "copy"    -> 2
    [] main.pc = "diag"    -> 3
    [] main.pc = "write"   -> 4
    [] OTHER               -> 0

\* ---- C16: the old solution is overwritten only by CopySolutionToOldSolution,
\* called exactly once per time step, after the step's MGsolve has returned and
\* before the next one starts; during a solve it is only read.
C16_OldWrittenOnlyByCopy ==
  [][ InTimeLoop =>
        /\ SolOld' # SolOld => main.pc = "copy" /\ main'.pc = "diag"
        /\ main.pc = "copy" => SolOld' = Sol
        /\ main.pc = "MGsolve" => SolOld' = SolOld
        /\ Cardinality(LogPositions("CopySolutionToOldSolution"))
             = main.time_step + (IF main.pc \in { "diag", "write" } THEN 1 ELSE 0)
        /\ \A q \in LogPositions("CopySolutionToOldSolution") :
             /\ main.log[q - 1] = Ev("MGsolve returns", main.log[q].step)
             /\ q + 1 \in DOMAIN main.log => main.log[q + 1].op # "MGsolve" ]_vars

C16_Witness ==
  /\ main.pc = "MGsolve" /\ main.time_step = 2
  /\ pass = 1 /\ \A p \in Procs : pc[p] = "idle"
  /\ SolOld # SolFromSeed(app, dim, 0)

\* ---- C17: the time loop performs exactly n_timesteps steps and then ends,
\* whatever each solve returns: a step whose iteration hit its cap without
\* converging is still followed by the copy, the diagnostics and the next step.
C17_EveryStepRuns ==
  InTimeLoop =>
    /\ main.time_step <= NSteps
    /\ main.pc = "done" => main.time_step = NSteps /\ Len(main.outfile) = NSteps
    /\ main.pc = "loop" => ENABLED T_LoopTest
    /\ main.pc = "copy" => ENABLED T_Copy
    /\ main.pc = "diag" => ENABLED T_GetKine
    /\ main.pc # "vtk0" =>
         main.log = SubSeq(WholeLog, 1, OpsBefore[main.time_step] + OpsBehind)

\* the solve of step 1 hit the cap without converging, and the copy, the
\* diagnostics and the rows of the step followed
C17_Witness ==
  /\ main.pc = "loop" /\ main.time_step = 2
  /\ main.converged = FALSE /\ main.corrected = MaxPass
  /\ Len(main.outfile) = 2
  /\ \E q \in DOMAIN main.log :
       /\ main.log[q] = Ev("MGsolve returns", 1)
       /\ main.log[q + 1] = Ev("CopySolutionToOldSolution", 1)
       /\ main.log[q + 2] = Ev("GetKineandPointVlaue", 1)

\* ---- C18: the multigrid type in force is F_CYCLE for the solve of time step
\* 0 and V_CYCLE for the solve of every later step; once V_CYCLE it stays.
C18_FCycleOnce ==
  InTimeLoop =>
    /\ \A i \in DOMAIN main.solves :
         /\ main.solves[i].step = i - 1
         /\ main.solves[i].mgType = IF i = 1 THEN "F_CYCLE" ELSE "V_CYCLE"
    /\ main.mgType = IF Len(main.solves) <= 1 THEN "F_CYCLE" ELSE "V_CYCLE"

C18_Witness ==
  /\ main.pc = "MGsolve" /\ Len(main.solves) = 3
  /\ main.mgType = "V_CYCLE" /\ main.solves[1].mgType = "F_CYCLE"

\* ---- C19: a snapshot is written with tag 0 before the first time step, and
\* afterwards with tag t exactly when t = time_step + 1 is a multiple of 10,
\* after the solve and the copy of that step; no other snapshot is written.
C19_SnapshotEveryTenth ==
  InTimeLoop /\ main.pc # "vtk0" =>
    /\ main.snapshots
         = << 0 >> \o [ n \in 1 .. (main.time_step \div 10) |-> 10 * n ]
    /\ Cardinality(LogPositions("Write")) = Len(main.snapshots)
    /\ \A q \in LogPositions("Write") :
         \/ q = 1 /\ main.log[q].step = 0
         \/ /\ (main.log[q].step + 1) % 10 = 0
            /\ \E a, b \in (q - Len(OpsOfStep(main.log[q].step))) .. (q - 1) :
                 /\ a < b
                 /\ main.log[a] = Ev("MGsolve returns", main.log[q].step)
                 /\ main.log[b] = Ev("CopySolutionToOldSolution", main.log[q].step)

C19_Witness ==
  /\ main.pc = "loop" /\ main.snapshots = << 0, 10 >>

\* ---- C20: after k completed time steps each of the three streams holds
\* exactly k rows, one per step in step order, the row of step index i at time
\* (i + 1) * dt.
C20_OneRowPerStep ==
  InTimeLoop =>
    \A f \in { main.outfile, main.outfile1, main.outfile2 } :
      /\ Len(f) = main.time_step
      /\ \A i \in DOMAIN f : f[i][1] = i * dt
      /\ \A i, j \in DOMAIN f : i < j => f[i][1] < f[j][1]

C20_Witness ==
  /\ main.pc = "loop" /\ main.time_step = 3
  /\ Len(main.outfile) = 3 /\ main.outfile1[3][1] = 3 * dt
  /\ Len(main.outfile2) = 3

\* the processes whose element loop meets the probe node
Finders == { p \in Procs : \E e \in OwnElems(p) :
               \E i \in 0 .. (GetElementDofNumber(e, "SECOND") - 1) :
                 GetSolutionDof(i, e, "SECOND") = probeNode }
InDiag == app = "Bouss" /\ \E p \in Procs : pc[p] # "idle" \/ diag[p].done
\* what process p accumulates over its own elements
OwnKinetic(p) == SumOver(OwnElems(p), [ e \in Elems |-> KineticOfElem(e, dim) ])
AllKinetic == SumTo(NProc, [ p \in Procs |-> OwnKinetic(p) ])

\* ---- C21: the kinetic energy GetKineandPointVlaue returns on every partition
\* is the sum, over all partitions, of what each partition accumulated over
\* its own elements.
C21_KineticIsSumOfPartitions ==
  InDiag =>
    \A p \in Procs :
      /\ pc[p] = "g_normKE" => diag[p].kineticEnergy = OwnKinetic(p)
      /\ (pc[p] \in { "g_maxminU", "g_maxminV" } \/ diag[p].done) =>
           diag[p].kineticEnergy = AllKinetic

C21_Witness ==
  /\ \A p \in Procs : diag[p].done /\ diag[p].kineticEnergy = AllKinetic
  /\ \E p, q \in Procs : p # q /\ OwnKinetic(p) > 0 /\ OwnKinetic(q) > 0

\* p has made the selection for the first / the second probed component
SelectedU(p) == pc[p] = "g_maxminV" \/ diag[p].done
SelectedV(p) == diag[p].done

\* ---- C22: when exactly one partition finds the probe node, with value v
\* there, and every other partition holds 0, the max/min selection returns v on
\* every partition, for U and for V and for either sign of v.
C22_SelectionRecoversValue ==
  (InDiag /\ \E f \in Procs : Finders = {f}) =>
    \A p \in Procs :
      /\ SelectedU(p) => diag[p].ptUCoord = Sol["U"][probeNode]
      /\ SelectedV(p) => diag[p].ptVCoord = Sol["V"][probeNode]

\* ---- C30: GetKineandPointVlaue returns the same pair (kinetic energy, probe
\* values) on every partition, wherever the probe node lies and whatever its
\* value, values within the tolerance and a probe node nowhere included.
C30_SamePairEverywhere ==
  InDiag =>
    \A p, q \in Procs :
      (diag[p].done /\ diag[q].done) =>
        /\ diag[p].kineticEnergy = diag[q].kineticEnergy
        /\ diag[p].ptUCoord = diag[q].ptUCoord
        /\ diag[p].ptVCoord = diag[q].ptVCoord

\* main is inside system.MGsolve() / has come back from the solve of this step
InMGsolve == InTimeLoop /\ main.pc = "MGsolve"
BackFromMGsolve == InTimeLoop /\ main.pc \in { "copy", "diag", "write" }

\* ---- C23: within a time step the nonlinear iteration stops as soon as the
\* residual norm is below the tolerance or the iteration cap is reached,
\* whichever comes first: it never runs past the cap, it always has a next
\* step until it stops, and each iteration makes one assembly, one multigrid
\* solve and one correction of the current solution.
C23_NonLinearIterationStops ==
  /\ InMGsolve =>
        /\ main.corrected < MaxPass
        /\ \A k \in DOMAIN main.norms : main.norms[k] = FALSE
        /\ main.mgsolves = main.corrected /\ Len(main.norms) = main.corrected
        /\ pass \in { main.corrected, main.corrected + 1 }
        /\ (\A p \in Procs : pc[p] = "idle") =>
              IF pass = main.corrected THEN ENABLED T_Assemble
              ELSE ENABLED (\E c \in BOOLEAN : T_Correct(c))
  /\ BackFromMGsolve =>
        /\ main.corrected \in 1 .. MaxPass
        /\ main.mgsolves = main.corrected /\ Len(main.norms) = main.corrected
        /\ pass = main.corrected
        /\ \A k \in 1 .. (main.corrected - 1) : main.norms[k] = FALSE
        /\ main.norms[main.corrected] = TRUE \/ main.corrected = MaxPass
        /\ main.converged = main.norms[main.corrected]

\* a solve that stopped below the cap because the norm fell below the
\* tolerance, after an earlier step of the run did the same
C23_Witness ==
  /\ main.pc = "copy" /\ main.time_step = 1
  /\ main.corrected = 1 /\ main.corrected < MaxPass
  /\ main.norms = << TRUE >> /\ main.mgsolves = 1

\* n entries e
Repeat(e, n) == [ k \in 1 .. n |-> e ]
\* what one V-cycle entered at a level does, from its entry to its return
RECURSIVE VCycleOps(_)
VCycleOps(level) ==
  IF level = 0
    THEN << MgEv("V begin", 0), MgEv("CoarseSolve", 0), MgEv("V end", 0) >>
    ELSE << MgEv("V begin", level) >>
           \o Repeat(MgEv("Presmoothing", level), mg.nPre)
           \o << MgEv("Restriction", level) >>
           \o VCycleOps(level - 1)
           \o << MgEv("Prolongation", level) >>
           \o Repeat(MgEv("Postsmoothing", level), mg.nPost)
           \o << MgEv("V end", level) >>
IsPrefixOrWhole(seg, whole) ==
  Len(seg) <= Len(whole) /\ seg = SubSeq(whole, 1, Len(seg))

\* ---- C24: one V-cycle at a level performs, in this order and with nothing
\* in between: nPre presmoothing applications at the level, the restriction to
\* the next coarser level, the cycle on the coarser level, the prolongation,
\* nPost postsmoothing applications; with nPre = nPost = 0 no smoothing at all.
C24_VCycleOrder ==
  mg.pc # "Idle" =>
    /\ \A q \in DOMAIN mg.trace :
         mg.trace[q].op = "V begin" =>
           LET ops == VCycleOps(mg.trace[q].level)
               last == IF q + Len(ops) - 1 <= Len(mg.trace) THEN q + Len(ops) - 1
                       ELSE Len(mg.trace)
           IN /\ IsPrefixOrWhole(SubSeq(mg.trace, q, last), ops)
              /\ mg.pc = "Done" => last = q + Len(ops) - 1
    /\ (mg.nPre = 0 /\ mg.nPost = 0) =>
         \A q \in DOMAIN mg.trace :
           mg.trace[q].op \notin { "Presmoothing", "Postsmoothing" }

C24_Witness ==
  /\ mg.pc = "Done" /\ mg.mgType = "V_CYCLE" /\ mg.levels >= 2
  /\ mg.nPre = 2 /\ mg.nPost = 2
  /\ mg.trace = VCycleOps(mg.levels - 1)

\* weight * ( -(cur - old) * phi / dt - 0.5 * (F + Fold) ), with 1 / dt = InvDt
TrapezoidalTerm(weight, cur, old, phi, F, Fold) ==
  weight * (0 - (cur - old) * phi * InvDt) - (weight * (F + Fold)) \div 2
\* the sums over the quadrature points of that term for the temperature and the
\* velocity equations of element e, F being the integrand of the current state
\* evaluated on the current and on the old values
TransientT(S, Sold, e, d, i) ==
  SumTo(NGauss,
        [ ig \in GaussPoints |->
            LET gc == GaussValues(S, e, d, ig)
                go == GaussValues(Sold, e, d, ig)
            IN TrapezoidalTerm(GaussWeight(ig), gc.T, go.T, PhiTab(nDofsT(e), i, ig),
                               Temp(gc, e, d, i, ig), Temp(go, e, d, i, ig)) ])
TransientV(S, Sold, e, d, k, i) ==
  SumTo(NGauss,
        [ ig \in GaussPoints |->
            LET gc == GaussValues(S, e, d, ig)
                go == GaussValues(Sold, e, d, ig)
            IN TrapezoidalTerm(GaussWeight(ig), At(gc.V, k), At(go.V, k),
                               PhiTab(nDofsV(e), i, ig),
                               NSV(gc, e, d, i, k, ig), NSV(go, e, d, i, k, ig)) ])
TransientOfElement ==
  [ d \in {2, 3} |->
      [ sp \in SolPairs(d) |->
          [ e \in Elems |->
              [ T |-> [ i \in Idx(nDofsT(e)) |-> TransientT(sp[1], sp[2], e, d, i) ],
                V |-> [ k \in Idx(d) |->
                          [ i \in Idx(nDofsV(e)) |->
                              TransientV(sp[1], sp[2], e, d, k, i) ] ] ] ] ] ]
\* p has run the Gauss point loop of element iel[p]
AfterGaussLoop(p) == app = "Bouss" /\ pc[p] = "scatter"

\* ---- C25: in AssembleBoussinesqAppoximation_AD every quadrature point adds
\* weight * ( -(current - old) * phi_i / dt - 0.5 * (F_i(current) + F_i(old)) ) to
\* the residual of every transient equation (temperature, each velocity
\* component), F_i being one integrand evaluated on the two states.
C25_TrapezoidalAveraging ==
  \A p \in Procs :
    AfterGaussLoop(p) =>
      LET want == TransientOfElement[dim][<< Sol, SolOld >>][iel[p]]
      IN /\ \A i \in Idx(nDofsT(iel[p])) : At(aRes[p].T, i) = want.T[i]
         /\ \A k \in Idx(dim) : \A i \in Idx(nDofsV(iel[p])) :
              At(At(aRes[p].V, k), i) = want.V[k][i]

\* an element whose old state differs from the current one and whose old-state
\* buoyancy and temperature integrands do not vanish
C25_Witness ==
  \E p \in Procs :
    /\ AfterGaussLoop(p) /\ Sol # SolOld
    /\ \E i \in Idx(nDofsV(iel[p])) :
         NSV(GaussValues(SolOld, iel[p], dim, 0), iel[p], dim, i, 1, 0)
           # NSVold_NoBuoyancy(GaussValues(SolOld, iel[p], dim, 0), iel[p], dim, i, 1, 0)
    /\ \E i \in Idx(nDofsT(iel[p])) :
         Temp(GaussValues(SolOld, iel[p], dim, 0), iel[p], dim, i, 0) # 0

\* the solution S with the value of unknown f at a node moved by h
Perturb(S, f, node, h) == [ S EXCEPT ![f][node] = @ + h ]
\* the seeds of the solution state of the run
SeedsOfState ==
  CHOOSE st \in SolStates :
    Sol = SolFromSeed(app, dim, st[1]) /\ SolOld = SolFromSeed(app, dim, st[2])
\* the recorded residuals aResT, aResV, aResP of element e with the independent
\* value t = <<field, local dof>> moved up and down by one; they are
\* polynomials of degree two in the independents, so half the difference of
\* the two is the derivative adept extracts
PerturbedRecording ==
  [ d \in {2, 3} |->
      [ st \in SolStates |->
          [ e \in Elems |->
              [ t \in Range(Layout(e, d)) |->
                  LET S == SolFromSeed("Bouss", d, st[1])
                      Sold == SolFromSeed("Bouss", d, st[2])
                      node == GetSolutionDof(t[2], e, SolType(t[1]))
                  IN [ plus |-> GaussLoop_Bouss(Perturb(S, t[1], node, 1), Sold,
                                                aResZero(e, d), e, d, 0),
                       minus |-> GaussLoop_Bouss(Perturb(S, t[1], node, 0 - 1), Sold,
                                                 aResZero(e, d), e, d, 0) ] ] ] ] ]
\* what s.jacobian() returns for the recording of element e: the derivative of
\* the dependent rt with respect to the independent ct, for every pair
JacobianOfRecording ==
  [ d \in {2, 3} |->
      [ st \in SolStates |->
          [ e \in Elems |->
              [ rt \in Range(Layout(e, d)) |->
                  [ ct \in Range(Layout(e, d)) |->
                      LET pr == PerturbedRecording[d][st][e][ct]
                      IN (TagRes(pr.plus, rt) - TagRes(pr.minus, rt)) \div 2 ] ] ] ] ]
\* entry (r, c) of the block J of element e, the solution being of seeds st
JacEntry_Bouss(J, st, e, r, c) ==
  JacobianOfRecording[dim][st][e][J.rows[r]][J.cols[c]]
\* d Res / d unknown of element e, Res as the assembler fills it, per row of
\* the system of the unknown and per slot of Res
ResDerivative ==
  [ d \in {2, 3} |->
      [ st \in SolStates |->
          [ e \in Elems |->
              [ dof \in { GetSystemDofOf("Bouss", d, t[1], t[2], e) :
                            t \in Range(Layout(e, d)) } |->
                  LET t == CHOOSE u \in Range(Layout(e, d)) :
                             GetSystemDofOf("Bouss", d, u[1], u[2], e) = dof
                      pr == PerturbedRecording[d][st][e][t]
                      up == FillRes(<< >>, pr.plus, e, d)
                      down == FillRes(<< >>, pr.minus, e, d)
                  IN [ r \in 1 .. Len(up) |-> (up[r] - down[r]) \div 2 ] ] ] ] ]
\* d Res[r] / d unknown[c] for the Res and the sysDof the element scattered:
\* unknown[c] is the unknown whose row of the system is sysDof[c]
DRes_Bouss(map, st, e, r, c) == ResDerivative[dim][st][e][map[c]][r]
\* the same for AssembleProblemDirNeu, whose residual is affine in sol_u
ResOn_DirNeu(S, e) ==
  VolumeRes_DirNeu_on(S, neumann_loop(Zeros(nDof_u(e)), dim, e, 0), e)
DRes_DirNeu(e, i, j) ==
  At(ResOn_DirNeu(Perturb(Sol, "d_s", GetSolutionDof(j, e, SolType("d_s")), 1), e), i)
    - At(ResOn_DirNeu(Sol, e), i)
\* p has just added the Jacobian block of element iel[p] - 1
BlockAdded(p) == assembleMatrix /\ pc[p] = "elem" /\ iel[p] > elementOffset[p]

\* ---- C26 (as stated): entry (i, j) of the local Jacobian block added to the
\* matrix equals d Res[i] / d unknown[j], with the same sign, Res being the
\* local residual added to the global residual, in both assemblers.
C26_JacobianIsResidualDerivative ==
  \A p \in Procs :
    BlockAdded(p) =>
      LET e == iel[p] - 1
      IN IF app = "Bouss"
           THEN LET st == SeedsOfState
                IN \A r, c \in 1 .. Len(sysDof[p]) :
                     JacEntry_Bouss(Jac[p], st, e, r, c)
                       = DRes_Bouss(sysDof[p], st, e, r, c)
           ELSE \A i, j \in Idx(nDof_u(e)) :
                  At(Jac[p], i * nDof_u(e) + j) = DRes_DirNeu(e, i, j)

\* ---- C26 (amended): entry (i, j) of the local Jacobian block equals the
\* negative of d Res[i] / d unknown[j]: the block is the derivative of the
\* recorded residual aRes, of which Res is the negative (Boussinesq), and of
\* minus the hand-coded residual (AssembleProblemDirNeu).
C26_JacobianIsMinusResidualDerivative ==
  \A p \in Procs :
    BlockAdded(p) =>
      LET e == iel[p] - 1
      IN IF app = "Bouss"
           THEN LET st == SeedsOfState
                IN \A r, c \in 1 .. Len(sysDof[p]) :
                     JacEntry_Bouss(Jac[p], st, e, r, c)
                       = 0 - DRes_Bouss(sysDof[p], st, e, r, c)
           ELSE \A i, j \in Idx(nDof_u(e)) :
                  At(Jac[p], i * nDof_u(e) + j) = 0 - DRes_DirNeu(e, i, j)

\* a block with a non-zero entry has been added by each assembler
C26_Witness ==
  \E p \in Procs :
    /\ BlockAdded(p)
    /\ IF app = "Bouss"
         THEN \E r, c \in 1 .. Len(sysDof[p]) :
                r # c /\ JacEntry_Bouss(Jac[p], SeedsOfState, iel[p] - 1, r, c) # 0
         ELSE \E i, j \in Idx(nDof_u(iel[p] - 1)) :
                i # j /\ At(Jac[p], i * nDof_u(iel[p] - 1) + j) # 0

\* what element e scatters when it is the only element the buffers ever held,
\* per application, dimension and seeds of the solution state
FreshResTable ==
  [ a \in Apps |->
      [ d \in (IF a = "DirNeu" THEN {1, 2, 3} ELSE {2, 3}) |->
          [ st \in SolStates |->
              [ e \in Elems |->
                  IF a = "DirNeu"
                    THEN VolumeRes_DirNeu_on(SolFromSeed(a, d, st[1]),
                                             neumann_loop(Zeros(nDof_u(e)), d, e, 0), e)
                    ELSE FillRes(<< >>,
                                 GaussLoop_Bouss(SolFromSeed(a, d, st[1]),
                                                 SolFromSeed(a, d, st[2]),
                                                 aResZero(e, d), e, d, 0),
                                 e, d) ] ] ] ]
FreshRes(e) == FreshResTable[app][dim][SeedsOfState][e]
\* and the dof map an element builds from an empty one
FreshMapTable ==
  [ a \in Apps |->
      [ d \in (IF a = "DirNeu" THEN {1, 2, 3} ELSE {2, 3}) |->
          [ e \in Elems |->
              IF a = "DirNeu"
                THEN [ s \in 1 .. nDof_u(e) |-> GetSystemDofOf(a, d, "d_s", s - 1, e) ]
                ELSE LET w == SysDofWrites(e, d)
                     IN ApplyWrites(Zeros(nDofsTVP(e, d)), w,
                                    [ s \in DOMAIN w |->
                                        GetSystemDofOf(a, d, w[s].tag[1], w[s].tag[2], e) ],
                                    0) ] ] ]
FreshJacTable == [ e \in Elems |-> VolumeJac_DirNeu(Zeros(nDof_u(e) * nDof_u(e)), e) ]
FreshJac(e) == FreshJacTable[e]
\* p has scattered the residual of element e and not yet started the next
ScatteredBy(p, e) ==
  /\ pc[p] \in {"elem", "declare", "jacobian"}
  /\ e = IF pc[p] = "elem" THEN iel[p] - 1 ELSE iel[p]
  /\ e >= elementOffset[p]

\* ---- C27: the local buffers are rebuilt for each element (accumulators zero,
\* dof map rebuilt), so what an element scatters (residual, dof map, and the
\* Jacobian of AssembleProblemDirNeu) is the same whichever elements the
\* process handled before it and wherever the element stands in the loop.
C27_BuffersRebuiltPerElement ==
  /\ \A p \in Procs :
        (pc[p] \in {"elem", "declare", "jacobian"}) =>
          LET fresh == FreshResTable[app][dim][SeedsOfState]
          IN \A e \in Elems :
               ScatteredBy(p, e) =>
                 /\ Res[p] = fresh[e]
                 /\ sysDof[p] = FreshMapTable[app][dim][e]
                 /\ (app = "DirNeu" /\ assembleMatrix) => Jac[p] = FreshJac(e)
  /\ \A p \in Procs :
        (pc[p] = "quad" => Jac[p] = Zeros(nDof_u(iel[p]) * nDof_u(iel[p])))
        /\ (pc[p] = "scatter" =>
              aRes[p] = aResOfElement[dim][<< Sol, SolOld >>][iel[p]])

\* a process has scattered an element that was not the first of its range,
\* the buffers having held the non-zero residual of the one before
C27_Witness ==
  \E p \in Procs : \E e \in Elems :
    /\ ScatteredBy(p, e)
    /\ e > elementOffset[p]
    /\ \E s \in 1 .. Len(FreshRes(e - 1)) : FreshRes(e - 1)[s] # 0
    /\ \E s \in 1 .. Len(Res[p]) : Res[p][s] # 0

\* face j lies on the physical boundary and the predicate of the call answers
\* "not Dirichlet" for its group
NonDirichletFace(j) ==
  /\ OnBoundary(j)
  /\ ~BdcFunctionMLProb(bdry.bdc, GeomDim(bdry.geom),
                        elem_center_bdry_3d(bdry.geom, j), "d_s",
                        0 - (bdry.index[j + 1] + 1), 0).dirichlet
\* the volume indices of the dofs of face j
VolumeIndices(j) ==
  { LocalFaceVertexIndexOf(bdry.geom, j, i) : i \in Idx(FaceDofNumberOf(bdry.geom)) }

\* ---- C28: a call of neumann_loop_1d or neumann_loop_2d3d changes only the
\* entries of Res at the volume index of a dof of a boundary face whose
\* predicate result is not Dirichlet; every other entry, and all of Res when
\* the element has only interior or Dirichlet faces, keeps its value, and the
\* length of Res never changes.
C28_NeumannLoopFrame ==
  /\ [][ bdry.pc = "face" =>
           /\ Len(bdry'.Res) = Len(bdry.Res)
           /\ \A v \in Idx(Len(bdry.Res)) :
                At(bdry'.Res, v) # At(bdry.Res, v) =>
                  /\ bdry.jface \in BdryFaces
                  /\ NonDirichletFace(bdry.jface)
                  /\ v \in VolumeIndices(bdry.jface) ]_vars
  /\ [](bdry.pc = "returned" /\ (\A j \in BdryFaces : ~NonDirichletFace(j)) =>
          bdry.Res = Zeros(CellDofNumberOf(bdry.geom)))

\* the loop has returned from a cell with a Dirichlet face, an interior face and
\* a face with non-zero Neumann data: some entry changed and some entry kept
C28_Witness ==
  /\ bdry.pc = "returned"
  /\ \E j, k, l \in BdryFaces :
       /\ NonDirichletFace(j) /\ ~OnBoundary(k)
       /\ OnBoundary(l) /\ ~NonDirichletFace(l)
  /\ \E v, w \in 1 .. Len(bdry.Res) : bdry.Res[v] # 0 /\ bdry.Res[w] = 0

\* the index ranges of the temperature block, of the block of velocity
\* component k and of the pressure block
RangeV(e, k) ==
  (nDofsT(e) + k * nDofsV(e)) .. (nDofsT(e) + (k + 1) * nDofsV(e) - 1)
RangeP(e, d) == (nDofsT(e) + d * nDofsV(e)) .. (nDofsTVP(e, d) - 1)
RangeOfTag(tag, e, d) ==
  IF tag[1] = "T" THEN 0 .. (nDofsT(e) - 1)
  ELSE IF tag[1] = "P" THEN RangeP(e, d)
  ELSE RangeV(e, CHOOSE k \in Idx(d) : VelName(k) = tag[1])
WritesTo(w, r) == { s \in DOMAIN w : w[s].slot = r }
\* per slot of an element, the assignments of the two lists that hit it: how
\* many, whether they name the same field and local dof within the block of
\* that field, the rows of the system and the accumulators they name
SlotTable ==
  [ d \in {2, 3} |->
      [ e \in Elems |->
          [ r \in Idx(nDofsTVP(e, d)) |->
              LET sw == SysDofWrites(e, d)
                  rw == ResWrites(e, d)
                  sys == WritesTo(sw, r)
                  res == WritesTo(rw, r)
              IN [ sys |-> Cardinality(sys),
                   res |-> Cardinality(res),
                   agree |-> \A s \in sys : \A t \in res :
                               /\ sw[s].tag = rw[t].tag
                               /\ r \in RangeOfTag(sw[s].tag, e, d),
                   dofs |-> { GetSystemDofOf("Bouss", d, sw[s].tag[1], sw[s].tag[2], e) :
                                s \in sys },
                   tags |-> { rw[t].tag : t \in res } ] ] ] ]
\* the blocks of an element are pairwise disjoint and cover [0, nDofsTVP), and
\* no assignment falls outside
BlocksPartition ==
  [ d \in {2, 3} |->
      [ e \in Elems |->
          LET n == nDofsTVP(e, d)
              sw == SysDofWrites(e, d)
              rw == ResWrites(e, d)
              blocks == << 0 .. (nDofsT(e) - 1) >>
                          \o [ k \in 1 .. d |-> RangeV(e, k - 1) ]
                          \o << RangeP(e, d) >>
          IN /\ \A a, b \in DOMAIN blocks : a # b => blocks[a] \cap blocks[b] = {}
             /\ UNION { blocks[a] : a \in DOMAIN blocks } = Idx(n)
             /\ \A s \in DOMAIN sw : sw[s].slot \in Idx(n)
             /\ \A t \in DOMAIN rw : rw[t].slot \in Idx(n) ] ]

\* ---- C29: in the Boussinesq assembler the temperature block, the dim
\* velocity blocks and the pressure block are pairwise disjoint ranges that
\* cover [0, nDofsTVP); every slot of sysDof and every slot of Res is written
\* exactly once per element, and slot r of Res holds the residual of the field
\* and local dof whose system dof slot r of sysDof holds.
C29_SlotsWrittenOnce ==
  \A p \in Procs : \A e \in Elems :
    (app = "Bouss" /\ ScatteredBy(p, e)) =>
      /\ BlocksPartition[dim][e]
      /\ Len(sysDof[p]) = nDofsTVP(e, dim) /\ Len(Res[p]) = nDofsTVP(e, dim)
      /\ \A r \in Idx(nDofsTVP(e, dim)) :
           LET hits == SlotTable[dim][e][r]
           IN /\ hits.sys = 1 /\ hits.res = 1 /\ hits.agree
              /\ \A dof \in hits.dofs : At(sysDof[p], r) = dof
              /\ \A tag \in hits.tags : At(Res[p], r) = 0 - TagRes(aRes[p], tag)

\* an element in three dimensions has been scattered with a non-zero residual
\* in the block of the third velocity component and in the pressure block
C29_Witness ==
  \E p \in Procs : \E e \in Elems :
    /\ app = "Bouss" /\ dim = 3 /\ ScatteredBy(p, e)
    /\ \E r \in RangeV(e, 2) : At(Res[p], r) # 0
    /\ \E r \in RangeP(e, 3) : At(Res[p], r) # 0

====
